---- MODULE Spec2Model ----
(***************************************************************************)
(* A model of the shared-state substrate of the ticker agents:             *)
(*   - fileOps.js: the in-process lock (lockSet), safeReadFile and         *)
(*     safeWriteFile (specification Spec);                                 *)
(*   - the agents that read-modify-write tickers.json from separate        *)
(*     processes (specification SpecAgents);                               *)
(*   - the adaptive throttles of the fetchers (specification SpecThrottle);*)
(*   - the ingestion of fetched news items (specification SpecIngest).     *)
(* Each specification leaves the variables of the other parts unchanged.   *)
(***************************************************************************)
EXTENDS Integers, Sequences, FiniteSets, TLC

VARIABLES
    \* ---- fileOps.js, one process ----
    now,            \* Date.now() in ms
    lockSet,        \* the Map filePath -> timestamp of fileOps.js
    disk,           \* the JSON document stored in each file
    fileState,      \* whether each file holds JSON, is missing or is not JSON
    opPc,           \* where each safeReadFile/safeWriteFile call stands
    opKind,         \* "read" or "write"
    opStart,        \* startTime of the call's acquireLock
    opNewData,      \* newData of a safeWriteFile call
    opCurrent,      \* currentData of a safeWriteFile call / result of a read
    staleTakeover,  \* history: acquireLock has force-released a lock
    lockOwner,      \* history: the call whose acquireLock set the path's entry of lockSet (0: no entry)
    opWaited,       \* history: the call has slept in acquireLock's loop
    initDoc,        \* history: the document the file held at start
    \* ---- the throttled fetchers, one process each ----
    thFetcher,      \* which fetcher this behaviour is about
    thDelay,        \* delay / throttleDelay
    thMinDelay,     \* MIN_DELAY (a let in the batched fetcher)
    thSuccesses,    \* consecutiveSuccesses of the batched fetcher
    thCount,        \* number of responses handled so far
    thTrace,        \* history: the responses handled, while at most TraceLen
    thRun,          \* history (batched fetcher): successful responses since the last failed one
    thRunFrom,      \* history (batched fetcher): throttleDelay after the last failed response
    \* ---- a news agent ingesting fetched items for one ticker ----
    ingAlg,         \* which agent's ingestion this behaviour is about
    ingNews,        \* tickersData[ticker].news / newsData[ticker]
    ingActive,      \* tickersData[ticker].isActive
    ingCount,       \* number of responses ingested; the clock of added_at
    \* ---- tickers.json shared by the agents, one process each ----
    tickersFile,    \* the document stored in tickers.json
    nwWriter,       \* which writeTickersToFile the news agent runs
    shPc,           \* shorts agent: where main/processNewTickers stands
    newTickers,     \* shorts agent: the tickers still to process
    tickersJson,    \* shorts agent: the document read once by processNewTickers
    shCurrentData,  \* shorts agent: currentData of its safeWriteFile
    processedTickers, \* shorts agent: the processed set
    shPasses,       \* shorts agent: runs of main started
    nwPc,           \* news agent: where processTickers stands
    nwTickers,      \* news agent: the tickers still to fetch
    tickersData,    \* news agent: its in-memory document
    updatesMade,    \* news agent: collectAllNews's flag
    nwExisting,     \* news agent: the document read back by its write
    nwPasses,       \* news agent: runs of processTickers started
    cmdPc,          \* operator command: where its handler stands
    cmdName,        \* operator command: "add" or "remove"
    cmdTicker,      \* operator command: its ticker
    cmdTickers,     \* operator command: the document it read
    cmdCount,       \* operator commands issued
    shortsWritten,  \* history: tickers whose shorts the shorts agent wrote
    newsWritten,    \* history: tickers whose news the news agent wrote
    \* ---- the batched news agent's reads of tickers.json, one process ----
    poolPc,         \* where processTickerPool's loop stands
    tickerPool,     \* the tickers of tickerPool
    unhandled,      \* history: a change handler's promise was rejected, uncaught
    exited,         \* the process has exited on an unhandled rejection
    \* ---- a change-driven agent: watcher, debounce timer, passes ----
    wAgent,         \* which agent this behaviour is about
    wnow,           \* Date.now() in ms
    fileChangeTimeout, \* when the debounce timer is due, or NoTimer
    processing,     \* the processing flag of watchFile
    intervalDue,    \* when the setInterval timer is due next, or NoTimer
    lastProcessedTime, \* lastProcessedTime of the news agent
    wPasses,        \* the processing passes in progress: trigger and start time
    wNotes,         \* history: change notifications so far
    wLastNote,      \* history: time of the last notification
    wLastDelay,     \* history: debounce delay armed by the last notification
    wClean,         \* history: every notification came with no pass running
                    \* and sooner after the previous one than its delay
    wWatcherStarts, \* history: passes started by the debounce timer
    wStartAt,       \* history: when the last of them started
    wEscaped,             \* history: an error escaped a watcher pass (unhandled rejection)
    wMissed,              \* history: a change notification was dropped and no pass has started since
    \* ---- the daily reset check, one process ----
    wipeVariant,    \* which reset check this behaviour is about
    wipeNow,        \* new Date(): the instant, in hours since the epoch (UTC)
    tzOffset,       \* local time minus UTC, in hours
    lastWipeFile,   \* the last-wipe file: missing, or the ISO string it holds
    stores,         \* the documents of tickers.json, filings.json, shorts.json
    wipeCount,      \* history: reset checks that have written
    \* ---- the shorts fetcher: one call of fetchStockData for a ticker ----
    sfPc,           \* where the call (with its recursive retries) stands
    sfAttempt,      \* the attempt parameter of the running invocation
    sfRetryDelay,   \* the retry delay slept before the running invocation
    sfResult,       \* what the call has returned
    sfWaits,        \* history: the time waited before each fetch attempt
    sfAll429,       \* history: every response so far was a 429
    \* financials agent, one call of processTickers (financials_scraper.js)
    finPc,                \* "off", "loop", "fetch", "done"
    finTickers,           \* the tickers argument of the running processTickers
    finIndex,             \* position of the for loop in finTickers
    retryPool,            \* the module-level retryPool
    finProcessedTickers,  \* the module-level processedTickers set
    finAttempt,           \* the attempt argument of the running fetchFinancials
    finWritten,           \* tickers whose financials were written
    finRounds,            \* nested processTickers calls made so far (history, saturating)
    \* processed-ticker bookkeeping of the filings and shorts agents
    ptAgent,              \* "filings" (filings_scraper.js), "shorts" (short-scraper.js) or "short_scraper" (short_scraper.js)
    ptPc,                 \* "off", "idle", "loop", "fetch"
    ptTickersJson,        \* keys of tickers.json
    ptFile,               \* tickers in <agent>-processed_tickers.json (lastWipe matches last-wipe.txt)
    ptMemory,             \* filings: the module-level processedTickers set
    ptSet,                \* the set main read from the file (shorts: also written back)
    ptNewTickers,         \* newTickers of the running main
    ptIndex,              \* position of the for loop in ptNewTickers
    ptMains,              \* main() calls made
    ptRestarts,           \* restarts of the process
    ptRecorded,           \* history: tickers ever recorded in the file
    ptRefetched,          \* history: a ticker recorded in the file was fetched again
    ptHandled,            \* history: tickers marked processed so far
    ptBefore,             \* history: tickers marked processed before the latest wipe
    ptFetchedSince,       \* history: tickers whose fetch was started since the latest wipe
    ptMainKeys,           \* history: keys of tickers.json read by the latest main since the latest wipe or restart
    \* the add command run alone (ticker.js, short_scraper.js appendTicker)
    adVariant,            \* "fs" (ticker.js) or "safe" (short_scraper.js)
    adPc,                 \* "off", "idle", "merge", "write", "done", "failed"
    adFileState,          \* what reading tickers.json finds: a member of FileStates
    adFile,               \* the document in tickers.json
    adTicker,             \* sanitizedTicker
    adTickers,            \* the local tickers of appendTicker
    adCurrentData,        \* currentData of safeWriteFile
    adBefore,             \* history: the document when the command started
    adStateBefore,        \* history: the file state when the command started
    adCount,              \* commands started
    adCmd,                \* the command running: "add", "remove", "clear"
    \* the display agent's clear schedule (ticker.js)
    clkNow,               \* local time, seconds since midnight
    clkMode,              \* "off", "minute" (minuteInterval), "second" (secondInterval), "cleared"
    clkDue,               \* when the running interval fires next
    clkRunning,           \* the process is alive
    clkFile,              \* the document in tickers.json
    clkBefore,            \* history: the document when the schedule started
    \* the display process's merge handlers (short_scraper.js watchShortsFile, watchFilingsFile)
    mgFile,               \* the document in tickers.json
    mgLock,               \* lockSet: the handler holding the lock on tickers.json, or "none"
    mgPc,                 \* per handler: "idle", "rlock", "read", "wlock", "wread", "write", "done"
    mgInput,              \* per handler: the tickers its shorts.json / filings.json has data for
    mgTickersData,        \* per handler: tickersData
    mgCurrentData,        \* per handler: currentData of safeWriteFile
    \* failed fetches of the filings agent (filings_scraper.js) and the shorts agent (short_scraper.js)
    rtAgent,              \* "filings" or "shorts"
    rtPc,                 \* "off", "idle", "loop", "fetch"
    rtTickersJson,        \* keys of tickers.json
    rtNewTickers,         \* newTickers of the running main
    rtIndex,              \* position of the for loop in rtNewTickers
    rtRetryPool,          \* the module-level retryPool
    rtProcessed,          \* the module-level processedTickers
    rtMains,              \* main() calls made
    rtFailed,             \* history: tickers whose latest fetch failed
    rtRetried,            \* history: tickers fetched again by a retry pass
    \* the display agent's run (ticker.js, short_scraper.js: init)
    dpPc,                 \* "off", "init" (init not yet past its reset check), "running"
    \* the filings agent and its own writes to tickers.json (filings_scraper.js)
    fbPc,                 \* per main(): "off", "idle", "start", "loop", "fetch"
    fbTickersJson,        \* keys of tickers.json
    fbLastWipe,           \* last-wipe.txt can be read
    fbFile,               \* tickers in filings-processed_tickers.json
    fbMemory,             \* the module-level processedTickers
    fbNewTickers,         \* per main(): its newTickers
    fbIndex,              \* per main(): position of the for loop
    fbProcessing,         \* the watcher's processing flag
    fbTimer,              \* the watcher's fileChangeTimeout is pending
    fbSelfPass,           \* history: the watcher has started a main
    fbWrote,              \* history: the agent has written tickers.json
    \* the alert sounds (check-for-news.js playWav, part_004 playAlertSound)
    sdAgent,              \* "news" or "headline"
    sdNow,                \* Date.now()
    sdLast,               \* lastPlayedTime / lastAlertTime
    sdPc,                 \* per pass: "off", "idle", "playing" or "failing" (awaiting wavPlayer.play)
    sdCaptured,           \* per pass: the now taken by playAlertSound
    sdStarts,             \* history: the start times of the last two sounds
    \* the keys created in tickers.json (ticker.js add and load, momo-scraper.js)
    snSource,             \* "add", "load" or "scanner"
    snPc,                 \* "off", "input", "done"
    snInput,              \* the typed argument, the line of the file, or the scanned symbol without (HOD)
    snHod,                \* scanner: the symbol ends with (HOD)
    snKeys,               \* the keys created
    wfFailedAt,     \* history: wipeCount when a reset check last ended on a failed write (-1: never)
    bpVariant,      \* which processTickerPool runs: "batch" (splice of batchSize) or "single" (shift)
    bpFile,         \* the keys of tickers.json
    bpPool,         \* tickerPool, the array the module variable refers to
    bpBatch,        \* the batch (or ticker) taken from the pool and being fetched
    bpPc,           \* processTickerPool: "off", "loop", "fetching", "sleeping"
    bpHandlers,     \* "change" handlers whose initializeTickerPool has not returned
    bpChanges       \* history: how often tickers.json has been changed

lockVars == <<now, lockSet, disk, fileState, opPc, opKind, opStart, opNewData, opCurrent,
              staleTakeover, lockOwner, opWaited, initDoc>>

thVars == <<thFetcher, thDelay, thMinDelay, thSuccesses, thCount, thTrace, thRun, thRunFrom>>

ingVars == <<ingAlg, ingNews, ingActive, ingCount>>

agVars == <<tickersFile, nwWriter, shPc, newTickers, tickersJson, shCurrentData,
            processedTickers, shPasses, nwPc, nwTickers, tickersData, updatesMade,
            nwExisting, nwPasses, cmdPc, cmdName, cmdTicker, cmdTickers, cmdCount,
            shortsWritten, newsWritten>>

poolVars == <<poolPc, tickerPool, unhandled, exited>>

watchVars == <<wMissed, wEscaped, wAgent, wnow, fileChangeTimeout, processing, intervalDue,
               lastProcessedTime, wPasses, wNotes, wLastNote, wLastDelay, wClean,
               wWatcherStarts, wStartAt>>

wipeVars == <<wipeVariant, wipeNow, tzOffset, lastWipeFile, stores, wipeCount>>

sfVars == <<sfPc, sfAttempt, sfRetryDelay, sfResult, sfWaits, sfAll429>>

finVars == <<finPc, finTickers, finIndex, retryPool, finProcessedTickers, finAttempt, finWritten, finRounds>>

ptHistory == <<ptHandled, ptBefore, ptFetchedSince, ptMainKeys>>

ptVars == <<ptAgent, ptPc, ptTickersJson, ptFile, ptMemory, ptSet, ptNewTickers, ptIndex,
           ptMains, ptRestarts, ptRecorded, ptRefetched, ptHistory>>

adVars == <<adVariant, adPc, adFileState, adFile, adTicker, adTickers, adCurrentData, adBefore, adStateBefore, adCount, adCmd>>

clkVars == <<clkNow, clkMode, clkDue, clkRunning, clkFile, clkBefore>>

mgVars == <<mgFile, mgLock, mgPc, mgInput, mgTickersData, mgCurrentData>>

rtVars == <<rtAgent, rtPc, rtTickersJson, rtNewTickers, rtIndex, rtRetryPool, rtProcessed,
           rtMains, rtFailed, rtRetried>>

dpVars == <<dpPc>>

fbVars == <<fbPc, fbTickersJson, fbLastWipe, fbFile, fbMemory, fbNewTickers, fbIndex,
           fbProcessing, fbTimer, fbSelfPass, fbWrote>>

sdVars == <<sdAgent, sdNow, sdLast, sdPc, sdCaptured, sdStarts>>

snVars == <<snSource, snPc, snInput, snHod, snKeys>>

wfVars == <<wfFailedAt>>

bpVars == <<bpVariant, bpFile, bpPool, bpBatch, bpPc, bpHandlers, bpChanges>>

vars == <<lockVars, thVars, ingVars, agVars, poolVars, watchVars, wipeVars, sfVars, finVars, ptVars, adVars, clkVars, mgVars, rtVars, dpVars, fbVars, sdVars, snVars, wfVars, bpVars>>

(***************************************************************************)
(* fileOps.js                                                              *)
(***************************************************************************)
lockTimeout == 10000
maxLockDuration == 20000

\* Time advances in steps of TickMs up to MaxTime.
TickMs == 5000
MaxTime == 25000

\* The safeWriteFile and safeReadFile calls of the process.
Writers == {1, 2}
Readers == {3}
Ops == Writers \cup Readers
Path == "tickers.json"
Paths == {Path}
Keys == {"A", "B", "C"}
WriteKeys == {"A", "B"}

EmptyDoc == [k \in {} |-> 0]

\* The documents a file may hold at start; old values are 0.
InitDocs == {[k \in S |-> 0] : S \in {{"C"}, {"A", "C"}, {"A", "B", "C"}}}

\* The partial documents call o may pass: its values are tagged with o.
PartialDocs(o) == {[k \in S |-> o] : S \in {{"A"}, {"B"}}}

\* What fs.readFile and JSON.parse find: a JSON document, no file (ENOENT),
\* or text that is not JSON.
FileStates == {"json", "missing", "invalid"}

\* fs.readFile and JSON.parse succeed
FileOk(filePath) == fileState[filePath] = "json"

\* { ...currentData, ...newData }
ShallowMergeSwapped(currentData, newData) ==
    [k \in DOMAIN currentData \cup DOMAIN newData |->
        IF k \in DOMAIN currentData THEN currentData[k] ELSE newData[k]]

ShallowMerge(currentData, newData) ==
    [k \in DOMAIN currentData \cup DOMAIN newData |->
        IF k \in DOMAIN newData THEN newData[k] ELSE currentData[k]]

\* lockSet.has(filePath), the condition of acquireLock's while loop
LockHasNever(filePath) == FALSE

LockHas(filePath) == filePath \in DOMAIN lockSet

\* releaseLock: delete the entry if there is one
releaseLock(ls, filePath) == [p \in DOMAIN ls \ {filePath} |-> ls[p]]

\* lockSet.set(filePath, Date.now())
lockSetSet(ls, filePath, t) == [p \in DOMAIN ls \cup {filePath} |-> IF p = filePath THEN t ELSE ls[p]]

\* The outcome of one evaluation of acquireLock's loop for a caller whose
\* startTime is start: "acquire" (loop left, lock taken), "force" (stale lock
\* released, then taken), "timeout" (throws) or "sleep".
AcquireOutcomeTimeoutFirst(filePath, start) ==
    IF ~LockHas(filePath) THEN "acquire"
    ELSE IF now - start >= lockTimeout THEN "timeout"
    ELSE IF now - lockSet[filePath] >= maxLockDuration THEN "force"
    ELSE "sleep"

AcquireOutcome(filePath, start) ==
    IF ~LockHas(filePath) THEN "acquire"
    ELSE IF now - lockSet[filePath] >= maxLockDuration THEN "force"
    ELSE IF now - start >= lockTimeout THEN "timeout"
    ELSE "sleep"

\* One pass through acquireLock's loop by call o, up to its next await.
AcquireStep(o, start) ==
    LET out == AcquireOutcome(Path, start) IN
    /\ opStart' = [opStart EXCEPT ![o] = start]
    /\ opWaited' = [opWaited EXCEPT ![o] = opWaited[o] \/ out = "sleep"]
    /\ UNCHANGED <<initDoc, fileState>>
    /\ CASE out = "acquire" ->
              /\ lockSet' = lockSetSet(lockSet, Path, now)
              /\ opPc' = [opPc EXCEPT ![o] = "reading"]
              /\ lockOwner' = o
              /\ UNCHANGED staleTakeover
         [] out = "force" ->
              /\ lockSet' = lockSetSet(releaseLock(lockSet, Path), Path, now)
              /\ opPc' = [opPc EXCEPT ![o] = "reading"]
              /\ lockOwner' = o
              /\ staleTakeover' = TRUE
         [] out = "timeout" ->
              /\ opPc' = [opPc EXCEPT ![o] = "failed"]
              /\ UNCHANGED <<lockSet, lockOwner, staleTakeover>>
         [] OTHER ->
              /\ opPc' = [opPc EXCEPT ![o] = "waiting"]
              /\ UNCHANGED <<lockSet, lockOwner, staleTakeover>>

\* safeReadFile(filePath) is called: runs to the first await.
CallRead(o) ==
    /\ o \in Readers
    /\ opPc[o] = "idle"
    /\ opKind' = [opKind EXCEPT ![o] = "read"]
    /\ AcquireStep(o, now)
    /\ UNCHANGED <<now, disk, opNewData, opCurrent>>

\* safeWriteFile(filePath, newData) is called: runs to the first await.
CallWrite(o) ==
    /\ o \in Writers
    /\ opPc[o] = "idle"
    /\ \E P \in PartialDocs(o) :
          opNewData' = [opNewData EXCEPT ![o] = P]
    /\ opKind' = [opKind EXCEPT ![o] = "write"]
    /\ AcquireStep(o, now)
    /\ UNCHANGED <<now, disk, opCurrent>>

\* The sleep of acquireLock's loop ends and the loop condition is evaluated again.
Wake(o) ==
    /\ opPc[o] = "waiting"
    /\ AcquireStep(o, opStart[o])
    /\ UNCHANGED <<now, disk, opKind, opNewData, opCurrent>>

\* safeReadFile without its catch: a failed read or parse is thrown on.
ReadFileDoneRaising(o) ==
    /\ opPc[o] = "reading"
    /\ opKind[o] = "read"
    /\ opCurrent' = [opCurrent EXCEPT ![o] = IF FileOk(Path) THEN disk[Path] ELSE EmptyDoc]
    /\ lockSet' = releaseLock(lockSet, Path)
    /\ lockOwner' = 0
    /\ opPc' = [opPc EXCEPT ![o] = IF FileOk(Path) THEN "done" ELSE "threw"]
    /\ UNCHANGED <<now, disk, fileState, opKind, opStart, opNewData, staleTakeover,
                   opWaited, initDoc>>

\* safeReadFile: fs.readFile and JSON.parse complete or throw; the catch
\* returns {}; finally releases.
ReadFileDone(o) ==
    /\ opPc[o] = "reading"
    /\ opKind[o] = "read"
    /\ opCurrent' = [opCurrent EXCEPT ![o] = IF FileOk(Path) THEN disk[Path] ELSE EmptyDoc]
    /\ lockSet' = releaseLock(lockSet, Path)
    /\ lockOwner' = 0
    /\ opPc' = [opPc EXCEPT ![o] = "done"]
    /\ UNCHANGED <<now, disk, fileState, opKind, opStart, opNewData, staleTakeover,
                   opWaited, initDoc>>

\* safeWriteFile with a catch that repairs: a failed read or parse is taken
\* as the empty document and the write goes on.
WriteReadDoneRepairing(o) ==
    /\ opPc[o] = "reading"
    /\ opKind[o] = "write"
    /\ opCurrent' = [opCurrent EXCEPT ![o] = IF FileOk(Path) THEN disk[Path] ELSE EmptyDoc]
    /\ opPc' = [opPc EXCEPT ![o] = "writing"]
    /\ fileState' = [fileState EXCEPT ![Path] = "json"]
    /\ UNCHANGED <<now, lockSet, lockOwner, disk, opKind, opStart, opNewData, staleTakeover,
                   opWaited, initDoc>>

\* safeWriteFile: fs.readFile and JSON.parse complete, the merge is computed
\* and fs.writeFile is started; or they throw, the catch rethrows and finally
\* releases.
WriteReadDone(o) ==
    /\ opPc[o] = "reading"
    /\ opKind[o] = "write"
    /\ IF FileOk(Path)
       THEN /\ opCurrent' = [opCurrent EXCEPT ![o] = disk[Path]]
            /\ opPc' = [opPc EXCEPT ![o] = "writing"]
            /\ UNCHANGED <<lockSet, lockOwner>>
       ELSE /\ opPc' = [opPc EXCEPT ![o] = "threw"]
            /\ lockSet' = releaseLock(lockSet, Path)
            /\ lockOwner' = 0
            /\ UNCHANGED opCurrent
    /\ UNCHANGED <<now, disk, fileState, opKind, opStart, opNewData, staleTakeover,
                   opWaited, initDoc>>

\* safeWriteFile: fs.writeFile completes, finally releases.
WriteFileDone(o) ==
    /\ opPc[o] = "writing"
    /\ disk' = [disk EXCEPT ![Path] = ShallowMerge(opCurrent[o], opNewData[o])]
    /\ lockSet' = releaseLock(lockSet, Path)
    /\ lockOwner' = 0
    /\ opPc' = [opPc EXCEPT ![o] = "done"]
    /\ UNCHANGED <<now, fileState, opKind, opStart, opNewData, opCurrent, staleTakeover,
                   opWaited, initDoc>>

\* Time passes.
Tick ==
    /\ now < MaxTime
    /\ now' = now + TickMs
    /\ UNCHANGED <<lockSet, disk, fileState, opPc, opKind, opStart, opNewData, opCurrent, staleTakeover, lockOwner, opWaited, initDoc>>

LockIdle ==
    /\ now = 0
    /\ lockSet = [p \in {} |-> 0]
    /\ disk = [p \in Paths |-> EmptyDoc]
    /\ fileState = [p \in Paths |-> "json"]
    /\ opPc = [o \in Ops |-> "idle"]
    /\ opKind = [o \in Ops |-> "none"]
    /\ opStart = [o \in Ops |-> 0]
    /\ opNewData = [o \in Ops |-> EmptyDoc]
    /\ opCurrent = [o \in Ops |-> EmptyDoc]
    /\ staleTakeover = FALSE
    /\ lockOwner = 0
    /\ initDoc = EmptyDoc
    /\ opWaited = [o \in Ops |-> FALSE]

LockInit ==
    /\ now = 0
    /\ lockSet = [p \in {} |-> 0]
    /\ fileState \in [Paths -> FileStates]
    /\ disk \in [Paths -> IF FileOk(Path) THEN InitDocs ELSE {EmptyDoc}]
    /\ initDoc = disk[Path]
    /\ opWaited = [o \in Ops |-> FALSE]
    /\ opPc = [o \in Ops |-> "idle"]
    /\ opKind = [o \in Ops |-> "none"]
    /\ opStart = [o \in Ops |-> 0]
    /\ opNewData = [o \in Ops |-> EmptyDoc]
    /\ opCurrent = [o \in Ops |-> EmptyDoc]
    /\ staleTakeover = FALSE
    /\ lockOwner = 0

LockNext ==
    \/ \E o \in Ops : CallRead(o)
    \/ \E o \in Ops : CallWrite(o)
    \/ \E o \in Ops : Wake(o)
    \/ \E o \in Ops : ReadFileDone(o)
    \/ \E o \in Ops : WriteReadDone(o)
    \/ \E o \in Ops : WriteFileDone(o)
    \/ Tick

(***************************************************************************)
(* The adaptive throttles                                                  *)
(***************************************************************************)
\* part_003, second script: fetchTickerNews (one ticker per request)
FTN_MIN_DELAY == 2000
FTN_MAX_DELAY == 5000
FTN_BACKOFF_MULTIPLIER == 2
FTN_RECOVERY_STEP == 100
FTN_InitialThrottleDelay == 500

\* part_003, first script: fetchNewsForTickers (batched)
FNT_InitialMinDelay == 10
FNT_MAX_DELAY == 10000
FNT_BACKOFF_MULTIPLIER == 2
FNT_RECOVERY_STEP == 50
FNT_SUCCESS_THRESHOLD == 5
FNT_MIN_DELAY_INCREMENT == 10
FNT_MAX_MIN_DELAY == 2000
FNT_InitialThrottleDelay == 10

\* check-for-news.js, second script: getNewsForTicker
GNT_InitialDelay == 500
GNT_maxDelay == 100000000
GNT_minDelay == 100
GNT_DecreaseStep == 100
GNT_BackoffFactor == 2

\* financials_scraper.js: fetchFinancials. INCREASE_FACTOR = 1.1 and
\* DECREASE_FACTOR = 0.999 are the fractions below; the products are taken
\* in whole milliseconds (rounded down).
FIN_InitialDelay == 10000
FIN_MIN_DELAY == 10000
FIN_MAX_DELAY == 120000
FIN_IncreaseNum == 11
FIN_IncreaseDen == 10
FIN_DecreaseNum == 999
FIN_DecreaseDen == 1000

\* Number of responses a fetcher handles (getNewsForTicker, whose delay has
\* the most values: MaxResponsesGNT), and length of the recorded history.
MaxResponses == 28
MaxResponsesGNT == 20
TraceLen == 4

Fetchers == {"fetchTickerNews", "fetchNewsForTickers", "getNewsForTicker", "fetchFinancials"}
Responses == {"ok", "429", "error"}

Max(a, b) == IF a >= b THEN a ELSE b
Min(a, b) == IF a <= b THEN a ELSE b

\* The upper bound of each fetcher's delay.
MaxDelayOf(f) ==
    CASE f = "fetchTickerNews" -> FTN_MAX_DELAY
      [] f = "fetchNewsForTickers" -> FNT_MAX_DELAY
      [] f = "getNewsForTicker" -> GNT_maxDelay
      [] OTHER -> FIN_MAX_DELAY

\* The initial values of delay and of the lower bound.
InitialDelayOf(f) ==
    CASE f = "fetchTickerNews" -> FTN_InitialThrottleDelay
      [] f = "fetchNewsForTickers" -> FNT_InitialThrottleDelay
      [] f = "getNewsForTicker" -> GNT_InitialDelay
      [] OTHER -> FIN_InitialDelay

InitialMinDelayOf(f) ==
    CASE f = "fetchTickerNews" -> FTN_MIN_DELAY
      [] f = "fetchNewsForTickers" -> FNT_InitialMinDelay
      [] f = "getNewsForTicker" -> GNT_minDelay
      [] OTHER -> FIN_MIN_DELAY

MaxResponsesOf(f) == IF f = "getNewsForTicker" THEN MaxResponsesGNT ELSE MaxResponses

\* Bookkeeping common to the fetchers: one more response handled. The history
\* is kept for the first TraceLen responses and dropped afterwards.
Handled(r) ==
    /\ thCount < MaxResponsesOf(thFetcher)
    /\ thCount' = thCount + 1
    /\ thTrace' = IF thCount < TraceLen THEN Append(thTrace, r) ELSE <<>>
    /\ UNCHANGED <<thFetcher, lockVars, ingVars, agVars, poolVars, watchVars, wipeVars, sfVars, finVars, ptVars, adVars, clkVars, mgVars, rtVars, dpVars, fbVars, sdVars, snVars, wfVars, bpVars>>

\* fetchTickerNews handles one response.
FetchTickerNews(r) ==
    /\ thFetcher = "fetchTickerNews"
    /\ Handled(r)
    /\ thDelay' = CASE r = "ok" -> Max(thDelay - FTN_RECOVERY_STEP, thMinDelay)
                    [] r = "429" -> Min(thDelay * FTN_BACKOFF_MULTIPLIER, FTN_MAX_DELAY)
                    [] OTHER -> thDelay
    /\ UNCHANGED <<thMinDelay, thSuccesses, thRun, thRunFrom>>

\* fetchNewsForTickers handles one response.
FetchNewsForTickers(r) ==
    /\ thFetcher = "fetchNewsForTickers"
    /\ Handled(r)
    /\ CASE r = "ok" ->
              IF thSuccesses + 1 >= FNT_SUCCESS_THRESHOLD
              THEN /\ thDelay' = Max(thDelay - FNT_RECOVERY_STEP, thMinDelay)
                   /\ thSuccesses' = 0
                   /\ UNCHANGED thMinDelay
              ELSE /\ thSuccesses' = thSuccesses + 1
                   /\ UNCHANGED <<thDelay, thMinDelay>>
         [] r = "429" ->
              /\ thDelay' = Min(thDelay * FNT_BACKOFF_MULTIPLIER, FNT_MAX_DELAY)
              /\ thMinDelay' = Min(thMinDelay + FNT_MIN_DELAY_INCREMENT, FNT_MAX_MIN_DELAY)
              /\ thSuccesses' = 0
         [] OTHER -> UNCHANGED <<thDelay, thMinDelay, thSuccesses>>
    /\ thRun' = IF r = "ok" THEN thRun + 1 ELSE 0
    /\ thRunFrom' = IF r = "ok" THEN thRunFrom ELSE thDelay'

\* getNewsForTicker with a multiplicative recovery on success.
GetNewsForTickerHalving(r) ==
    /\ thFetcher = "getNewsForTicker"
    /\ Handled(r)
    /\ thDelay' = CASE r = "ok" -> Max(thMinDelay, thDelay \div 2)
                    [] r = "429" -> Min(GNT_maxDelay, thDelay * GNT_BackoffFactor)
                    [] OTHER -> thDelay
    /\ UNCHANGED <<thMinDelay, thSuccesses, thRun, thRunFrom>>

\* getNewsForTicker handles one response.
GetNewsForTicker(r) ==
    /\ thFetcher = "getNewsForTicker"
    /\ Handled(r)
    /\ thDelay' = CASE r = "ok" -> Max(thMinDelay, thDelay - GNT_DecreaseStep)
                    [] r = "429" -> Min(GNT_maxDelay, thDelay * GNT_BackoffFactor)
                    [] OTHER -> thDelay
    /\ UNCHANGED <<thMinDelay, thSuccesses, thRun, thRunFrom>>

\* A fetchFinancials that backs off on every failed response.
FetchFinancialsAnyFailure(r) ==
    /\ thFetcher = "fetchFinancials"
    /\ Handled(r)
    /\ thDelay' = CASE r = "ok" -> Max(thMinDelay, (thDelay * FIN_DecreaseNum) \div FIN_DecreaseDen)
                    [] OTHER -> Min(FIN_MAX_DELAY, (thDelay * FIN_IncreaseNum) \div FIN_IncreaseDen)
    /\ UNCHANGED <<thMinDelay, thSuccesses, thRun, thRunFrom>>

\* fetchFinancials handles one response.
FetchFinancials(r) ==
    /\ thFetcher = "fetchFinancials"
    /\ Handled(r)
    /\ thDelay' = CASE r = "ok" -> Max(thMinDelay, (thDelay * FIN_DecreaseNum) \div FIN_DecreaseDen)
                    [] r = "429" -> Min(FIN_MAX_DELAY, (thDelay * FIN_IncreaseNum) \div FIN_IncreaseDen)
                    [] OTHER -> thDelay
    /\ UNCHANGED <<thMinDelay, thSuccesses, thRun, thRunFrom>>

ThrottleIdle ==
    /\ thFetcher = "none"
    /\ thDelay = 0
    /\ thMinDelay = 0
    /\ thSuccesses = 0
    /\ thCount = 0
    /\ thTrace = <<>>
    /\ thRun = 0
    /\ thRunFrom = thDelay

ThrottleInit ==
    /\ thFetcher \in Fetchers
    /\ thDelay = InitialDelayOf(thFetcher)
    /\ thMinDelay = InitialMinDelayOf(thFetcher)
    /\ thSuccesses = 0
    /\ thCount = 0
    /\ thTrace = <<>>
    /\ thRun = 0
    /\ thRunFrom = thDelay

ThrottleNext ==
    \/ \E r \in Responses : FetchTickerNews(r)
    \/ \E r \in Responses : FetchNewsForTickers(r)
    \/ \E r \in Responses : GetNewsForTicker(r)
    \/ \E r \in Responses : FetchFinancials(r)

(***************************************************************************)
(* Ingestion of fetched news                                               *)
(***************************************************************************)
\* Ids the upstream API gives its items, items per response, responses ingested.
MaxId == 2
MaxResponseLen == 2
MaxIngest == 3

NewsIds == 1..MaxId

\* A fetched item: its id, whether its symbols array is exactly [ticker], and
\* whether its headline contains one of the unwanted keywords.
NewsItems == [id : NewsIds, single : BOOLEAN, unwanted : BOOLEAN]

RECURSIVE SeqsUpTo(_, _)
SeqsUpTo(S, n) ==
    IF n = 0 THEN {<<>>}
    ELSE LET shorter == SeqsUpTo(S, n - 1) IN
         shorter \cup {Append(q, x) : q \in {t \in shorter : Len(t) = n - 1}, x \in S}

NewsResponses == SeqsUpTo(NewsItems, MaxResponseLen)

IngestAlgs == {"updateTickersWithNews", "processTicker"}

\* existingNews.some((item) => item.id === newsItem.id)
HasId(existingNews, id) == \E i \in 1..Len(existingNews) : existingNews[i].id = id

\* { ...newsItem, added_at: <now> }
Stored(newsItem, at) == [id |-> newsItem.id, added_at |-> at]

\* updateTickersWithNews: the forEach over the response; each item is tested
\* against the list as grown so far.
RECURSIVE UpdateNews(_, _, _)
UpdateNews(existingNews, news, at) ==
    IF news = <<>> THEN existingNews
    ELSE LET newsItem == Head(news)
             skip == \/ ~newsItem.single
                     \/ newsItem.unwanted
                     \/ HasId(existingNews, newsItem.id) IN
         UpdateNews(IF skip THEN existingNews ELSE Append(existingNews, Stored(newsItem, at)),
                    Tail(news), at)

\* filterNews: the response's items tested against the list as it was.
RECURSIVE FilterNews(_, _)
FilterNews(newsItems, existingNews) ==
    IF newsItems = <<>> THEN <<>>
    ELSE LET newsItem == Head(newsItems)
             rest == FilterNews(Tail(newsItems), existingNews) IN
         IF newsItem.unwanted \/ HasId(existingNews, newsItem.id)
         THEN rest
         ELSE <<newsItem>> \o rest

\* filteredNews.forEach(item => item.added_at = ...)
StampAll(items, at) == [i \in 1..Len(items) |-> Stored(items[i], at)]

\* check-for-news.js: collectAllNews calls updateTickersWithNews on a
\* non-empty response.
UpdateTickersWithNews(news) ==
    /\ ingAlg = "updateTickersWithNews"
    /\ ingCount < MaxIngest
    /\ ingCount' = ingCount + 1
    /\ ingNews' = IF news = <<>> THEN ingNews ELSE UpdateNews(ingNews, news, ingCount + 1)
    /\ ingActive' = (ingActive \/ Len(ingNews') > Len(ingNews))
    /\ UNCHANGED <<ingAlg, lockVars, thVars, agVars, poolVars, watchVars, wipeVars, sfVars, finVars, ptVars, adVars, clkVars, mgVars, rtVars, dpVars, fbVars, sdVars, snVars, wfVars, bpVars>>

\* part_003: processTicker after fetchTickerNews has returned news.
ProcessTicker(news) ==
    /\ ingAlg = "processTicker"
    /\ ingCount < MaxIngest
    /\ ingCount' = ingCount + 1
    /\ ingNews' = IF news = <<>> THEN ingNews
                  ELSE ingNews \o StampAll(FilterNews(news, ingNews), ingCount + 1)
    /\ UNCHANGED <<ingAlg, ingActive, lockVars, thVars, agVars, poolVars, watchVars, wipeVars, sfVars, finVars, ptVars, adVars, clkVars, mgVars, rtVars, dpVars, fbVars, sdVars, snVars, wfVars, bpVars>>

IngestIdle ==
    /\ ingAlg = "none"
    /\ ingNews = <<>>
    /\ ingActive = FALSE
    /\ ingCount = 0

IngestInit ==
    /\ ingAlg \in IngestAlgs
    /\ ingNews = <<>>
    /\ ingActive \in BOOLEAN
    /\ ingCount = 0

IngestNext ==
    \/ \E news \in NewsResponses : UpdateTickersWithNews(news)
    \/ \E news \in NewsResponses : ProcessTicker(news)

(***************************************************************************)
(* The agents sharing tickers.json: shorts agent, news agent, operator      *)
(***************************************************************************)
\* Runs of each agent's pass and operator commands in one behaviour.
MaxPasses == 1
MaxCommands == 1

Tickers == {"T1", "T2"}

\* The order Object.keys lists the tickers in.
TickerOrder == <<"T1", "T2">>

NewsWriters == {"safeWriteFile", "fs.writeFile"}

\* What fetchStockData returns: 0 for null, else the shorts data.
NoShorts == 0
StockData == {0, 1}

\* What the news agent's fetch returns for a ticker: nothing, or one item
\* about that ticker alone with a wanted headline.
AgentResponses == {<<>>, <<[id |-> 1, single |-> TRUE, unwanted |-> FALSE]>>}

\* The record appendTicker creates; it has no shorts.
NewTicker == [isActive |-> TRUE, news |-> <<>>, shorts |-> NoShorts]

\* Object.keys(doc)
KeysOf(doc) == SelectSeq(TickerOrder, LAMBDA t : t \in DOMAIN doc)

\* short-scraper.js main: read tickers.json and the processed set, keep the
\* tickers not yet processed.
ShMain ==
    /\ shPc = "idle"
    /\ shPasses < MaxPasses
    /\ shPasses' = shPasses + 1
    /\ newTickers' = SelectSeq(KeysOf(tickersFile), LAMBDA t : t \notin processedTickers)
    /\ shPc' = IF newTickers' = <<>> THEN "idle" ELSE "snapshot"
    /\ UNCHANGED <<tickersFile, nwWriter, tickersJson, shCurrentData, processedTickers,
                   nwPc, nwTickers, tickersData, updatesMade, nwExisting, nwPasses,
                   cmdPc, cmdName, cmdTicker, cmdTickers, cmdCount,
                   shortsWritten, newsWritten, lockVars, thVars, ingVars, poolVars, watchVars, wipeVars, sfVars, finVars, ptVars, adVars, clkVars, mgVars, rtVars, dpVars, fbVars, sdVars, snVars, wfVars, bpVars>>

\* processNewTickers: const tickersJson = await readTickersFromFile()
ShReadOnce ==
    /\ shPc = "snapshot"
    /\ tickersJson' = tickersFile
    /\ shPc' = "fetch"
    /\ UNCHANGED <<tickersFile, nwWriter, newTickers, shCurrentData, processedTickers,
                   shPasses, nwPc, nwTickers, tickersData, updatesMade, nwExisting,
                   nwPasses, cmdPc, cmdName, cmdTicker, cmdTickers, cmdCount,
                   shortsWritten, newsWritten, lockVars, thVars, ingVars, poolVars, watchVars, wipeVars, sfVars, finVars, ptVars, adVars, clkVars, mgVars, rtVars, dpVars, fbVars, sdVars, snVars, wfVars, bpVars>>

\* processNewTickers: fetchStockData returns; on data updateTickerInFile sets
\* the ticker's shorts in tickersJson and enters safeWriteFile.
ShFetch(stockData) ==
    /\ shPc = "fetch"
    /\ LET ticker == Head(newTickers) IN
       IF stockData = NoShorts
       THEN /\ newTickers' = Tail(newTickers)
            /\ shPc' = IF newTickers' = <<>> THEN "idle" ELSE "fetch"
            /\ UNCHANGED tickersJson
       ELSE /\ tickersJson' = IF ticker \in DOMAIN tickersJson
                              THEN [tickersJson EXCEPT ![ticker].shorts = stockData]
                              ELSE tickersJson
            /\ shPc' = "wread"
            /\ UNCHANGED newTickers
    /\ UNCHANGED <<tickersFile, nwWriter, shCurrentData, processedTickers,
                   shPasses, nwPc, nwTickers, tickersData, updatesMade, nwExisting,
                   nwPasses, cmdPc, cmdName, cmdTicker, cmdTickers, cmdCount,
                   shortsWritten, newsWritten, lockVars, thVars, ingVars, poolVars, watchVars, wipeVars, sfVars, finVars, ptVars, adVars, clkVars, mgVars, rtVars, dpVars, fbVars, sdVars, snVars, wfVars, bpVars>>

\* safeWriteFile of the shorts agent: currentData is read.
ShWriteRead ==
    /\ shPc = "wread"
    /\ shCurrentData' = tickersFile
    /\ shPc' = "wwrite"
    /\ UNCHANGED <<tickersFile, nwWriter, newTickers, tickersJson, processedTickers,
                   shPasses, nwPc, nwTickers, tickersData, updatesMade, nwExisting,
                   nwPasses, cmdPc, cmdName, cmdTicker, cmdTickers, cmdCount,
                   shortsWritten, newsWritten, lockVars, thVars, ingVars, poolVars, watchVars, wipeVars, sfVars, finVars, ptVars, adVars, clkVars, mgVars, rtVars, dpVars, fbVars, sdVars, snVars, wfVars, bpVars>>

\* safeWriteFile of the shorts agent: the merge is written; the ticker joins
\* the processed set.
ShWriteFile ==
    /\ shPc = "wwrite"
    /\ LET ticker == Head(newTickers) IN
       /\ tickersFile' = ShallowMerge(shCurrentData, tickersJson)
       /\ processedTickers' = processedTickers \cup {ticker}
       /\ shortsWritten' = IF ticker \in DOMAIN tickersJson
                           THEN shortsWritten \cup {ticker}
                           ELSE shortsWritten
    /\ newTickers' = Tail(newTickers)
    /\ shPc' = IF newTickers' = <<>> THEN "idle" ELSE "fetch"
    /\ shCurrentData' = EmptyDoc
    /\ UNCHANGED <<nwWriter, tickersJson,
                   shPasses, nwPc, nwTickers, tickersData, updatesMade, nwExisting,
                   nwPasses, cmdPc, cmdName, cmdTicker, cmdTickers, cmdCount,
                   newsWritten, lockVars, thVars, ingVars, poolVars, watchVars, wipeVars, sfVars, finVars, ptVars, adVars, clkVars, mgVars, rtVars, dpVars, fbVars, sdVars, snVars, wfVars, bpVars>>

\* check-for-news.js processTickers: readTickersFromFile stores the document
\* in tickersData and returns its keys.
NwRead ==
    /\ nwPc = "idle"
    /\ nwPasses < MaxPasses
    /\ nwPasses' = nwPasses + 1
    /\ tickersData' = tickersFile
    /\ nwTickers' = KeysOf(tickersFile)
    /\ updatesMade' = FALSE
    /\ nwPc' = IF nwTickers' # <<>> THEN "fetch"
               ELSE IF nwWriter = "fs.writeFile" THEN "wread" ELSE "idle"
    /\ UNCHANGED <<tickersFile, nwWriter, shPc, newTickers, tickersJson, shCurrentData,
                   processedTickers, shPasses, nwExisting,
                   cmdPc, cmdName, cmdTicker, cmdTickers, cmdCount,
                   shortsWritten, newsWritten, lockVars, thVars, ingVars, poolVars, watchVars, wipeVars, sfVars, finVars, ptVars, adVars, clkVars, mgVars, rtVars, dpVars, fbVars, sdVars, snVars, wfVars, bpVars>>

\* collectAllNews: getNewsForTicker returns for the next ticker and
\* updateTickersWithNews ingests it; after the last ticker the write starts
\* (always with fs.writeFile, on updatesMade with safeWriteFile).
NwFetch(news) ==
    /\ nwPc = "fetch"
    /\ LET ticker == Head(nwTickers)
           known == news # <<>> /\ ticker \in DOMAIN tickersData
           old == IF known THEN tickersData[ticker].news ELSE <<>>
           new == IF known THEN UpdateNews(old, news, 0) ELSE <<>>
           found == Len(new) > Len(old) IN
       /\ tickersData' = IF found
                          THEN [tickersData EXCEPT ![ticker].news = new,
                                                   ![ticker].isActive = TRUE]
                          ELSE tickersData
       /\ updatesMade' = (updatesMade \/ found)
    /\ nwTickers' = Tail(nwTickers)
    /\ nwPc' = IF nwTickers' # <<>> THEN "fetch"
               ELSE IF nwWriter = "fs.writeFile" \/ updatesMade' THEN "wread" ELSE "idle"
    /\ UNCHANGED <<tickersFile, nwWriter, shPc, newTickers, tickersJson, shCurrentData,
                   processedTickers, shPasses, nwExisting, nwPasses,
                   cmdPc, cmdName, cmdTicker, cmdTickers, cmdCount,
                   shortsWritten, newsWritten, lockVars, thVars, ingVars, poolVars, watchVars, wipeVars, sfVars, finVars, ptVars, adVars, clkVars, mgVars, rtVars, dpVars, fbVars, sdVars, snVars, wfVars, bpVars>>

\* writeTickersToFile: the file is read back (currentData of safeWriteFile,
\* existingData of the variant that writes with fs.writeFile, which skips the
\* write when the file equals tickersData).
NwWriteRead ==
    /\ nwPc = "wread"
    /\ nwExisting' = tickersFile
    /\ nwPc' = IF nwWriter = "fs.writeFile" /\ tickersData = tickersFile
               THEN "idle" ELSE "wwrite"
    /\ UNCHANGED <<tickersFile, nwWriter, shPc, newTickers, tickersJson, shCurrentData,
                   processedTickers, shPasses, nwTickers, tickersData, updatesMade,
                   nwPasses, cmdPc, cmdName, cmdTicker, cmdTickers, cmdCount,
                   shortsWritten, newsWritten, lockVars, thVars, ingVars, poolVars, watchVars, wipeVars, sfVars, finVars, ptVars, adVars, clkVars, mgVars, rtVars, dpVars, fbVars, sdVars, snVars, wfVars, bpVars>>

\* writeTickersToFile: the write lands, merged by safeWriteFile or whole by
\* fs.writeFile.
NwWriteFile ==
    /\ nwPc = "wwrite"
    /\ tickersFile' = IF nwWriter = "safeWriteFile"
                      THEN ShallowMerge(nwExisting, tickersData)
                      ELSE tickersData
    /\ newsWritten' = newsWritten \cup
                        {t \in DOMAIN tickersData : tickersData[t].news # <<>>}
    /\ nwExisting' = EmptyDoc
    /\ nwPc' = "idle"
    /\ UNCHANGED <<nwWriter, shPc, newTickers, tickersJson, shCurrentData,
                   processedTickers, shPasses, nwTickers, tickersData, updatesMade,
                   nwPasses, cmdPc, cmdName, cmdTicker, cmdTickers, cmdCount,
                   shortsWritten, lockVars, thVars, ingVars, poolVars, watchVars, wipeVars, sfVars, finVars, ptVars, adVars, clkVars, mgVars, rtVars, dpVars, fbVars, sdVars, snVars, wfVars, bpVars>>

\* ticker.js appendTicker: the file is read.
AppendTicker(t) ==
    /\ cmdPc = "idle"
    /\ cmdCount < MaxCommands
    /\ cmdCount' = cmdCount + 1
    /\ cmdName' = "add"
    /\ cmdTicker' = t
    /\ cmdTickers' = tickersFile
    /\ cmdPc' = "write"
    /\ UNCHANGED <<tickersFile, nwWriter, shPc, newTickers, tickersJson, shCurrentData,
                   processedTickers, shPasses, nwPc, nwTickers, tickersData,
                   updatesMade, nwExisting, nwPasses,
                   shortsWritten, newsWritten, lockVars, thVars, ingVars, poolVars, watchVars, wipeVars, sfVars, finVars, ptVars, adVars, clkVars, mgVars, rtVars, dpVars, fbVars, sdVars, snVars, wfVars, bpVars>>

\* ticker.js removeTicker: the file is read; an unknown ticker ends the command.
RemoveTicker(t) ==
    /\ cmdPc = "idle"
    /\ cmdCount < MaxCommands
    /\ cmdCount' = cmdCount + 1
    /\ cmdName' = "remove"
    /\ cmdTicker' = t
    /\ cmdTickers' = IF t \in DOMAIN tickersFile THEN tickersFile ELSE EmptyDoc
    /\ cmdPc' = IF t \in DOMAIN tickersFile THEN "write" ELSE "idle"
    /\ UNCHANGED <<tickersFile, nwWriter, shPc, newTickers, tickersJson, shCurrentData,
                   processedTickers, shPasses, nwPc, nwTickers, tickersData,
                   updatesMade, nwExisting, nwPasses,
                   shortsWritten, newsWritten, lockVars, thVars, ingVars, poolVars, watchVars, wipeVars, sfVars, finVars, ptVars, adVars, clkVars, mgVars, rtVars, dpVars, fbVars, sdVars, snVars, wfVars, bpVars>>

\* appendTicker / removeTicker: fs.writeFile of the document read, with the
\* ticker created or reactivated, or marked inactive.
CmdWriteFile ==
    /\ cmdPc = "write"
    /\ tickersFile' =
         IF cmdName = "add"
         THEN IF cmdTicker \in DOMAIN cmdTickers
              THEN [cmdTickers EXCEPT ![cmdTicker].isActive = TRUE]
              ELSE [t \in DOMAIN cmdTickers \cup {cmdTicker} |->
                       IF t = cmdTicker THEN NewTicker ELSE cmdTickers[t]]
         ELSE [cmdTickers EXCEPT ![cmdTicker].isActive = FALSE]
    /\ cmdTickers' = EmptyDoc
    /\ cmdPc' = "idle"
    /\ UNCHANGED <<nwWriter, shPc, newTickers, tickersJson, shCurrentData,
                   processedTickers, shPasses, nwPc, nwTickers, tickersData,
                   updatesMade, nwExisting, nwPasses, cmdName, cmdTicker, cmdCount,
                   shortsWritten, newsWritten, lockVars, thVars, ingVars, poolVars, watchVars, wipeVars, sfVars, finVars, ptVars, adVars, clkVars, mgVars, rtVars, dpVars, fbVars, sdVars, snVars, wfVars, bpVars>>

AgentsIdle ==
    /\ tickersFile = EmptyDoc
    /\ nwWriter = "none"
    /\ shPc = "off"
    /\ newTickers = <<>>
    /\ tickersJson = EmptyDoc
    /\ shCurrentData = EmptyDoc
    /\ processedTickers = {}
    /\ shPasses = 0
    /\ nwPc = "off"
    /\ nwTickers = <<>>
    /\ tickersData = EmptyDoc
    /\ updatesMade = FALSE
    /\ nwExisting = EmptyDoc
    /\ nwPasses = 0
    /\ cmdPc = "off"
    /\ cmdName = "none"
    /\ cmdTicker = "none"
    /\ cmdTickers = EmptyDoc
    /\ cmdCount = 0
    /\ shortsWritten = {}
    /\ newsWritten = {}

\* The agents start with tickers.json holding tickers the operator has added.
AgentsInit ==
    /\ tickersFile \in {[t \in S |-> NewTicker] : S \in {{"T1"}, {"T1", "T2"}}}
    /\ nwWriter \in NewsWriters
    /\ shPc = "idle"
    /\ newTickers = <<>>
    /\ tickersJson = EmptyDoc
    /\ shCurrentData = EmptyDoc
    /\ processedTickers = {}
    /\ shPasses = 0
    /\ nwPc = "idle"
    /\ nwTickers = <<>>
    /\ tickersData = EmptyDoc
    /\ updatesMade = FALSE
    /\ nwExisting = EmptyDoc
    /\ nwPasses = 0
    /\ cmdPc = "idle"
    /\ cmdName = "none"
    /\ cmdTicker = "none"
    /\ cmdTickers = EmptyDoc
    /\ cmdCount = 0
    /\ shortsWritten = {}
    /\ newsWritten = {}

AgentsNext ==
    \/ ShMain
    \/ ShReadOnce
    \/ \E stockData \in StockData : ShFetch(stockData)
    \/ ShWriteRead
    \/ ShWriteFile
    \/ NwRead
    \/ \E news \in AgentResponses : NwFetch(news)
    \/ NwWriteRead
    \/ NwWriteFile
    \/ \E t \in Tickers : AppendTicker(t)
    \/ \E t \in Tickers : RemoveTicker(t)
    \/ CmdWriteFile

(***************************************************************************)
(* The batched news agent (part_003): its reads of tickers.json            *)
(***************************************************************************)
\* Call 1 is the safeReadFile of processTickerPool's loop; call 2 is the
\* safeReadFile of initializeTickerPool run by a "change" handler.
PoolCall == 1
HandlerCalls == {2}

PoolDocs == {EmptyDoc} \cup InitDocs

\* The call's await of acquireLock has settled: it holds the lock or has thrown.
CallFree(o) == opPc[o] \in {"idle", "done", "failed"}

\* processTickerPool: the pool is empty, so the loop calls safeReadFile; the
\* catch around the while loop ends the loop when acquireLock throws.
PoolRefresh ==
    /\ ~exited
    /\ poolPc = "loop"
    /\ tickerPool = {}
    /\ opKind' = [opKind EXCEPT ![PoolCall] = "read"]
    /\ AcquireStep(PoolCall, now)
    /\ poolPc' = IF opPc'[PoolCall] = "failed" THEN "ended" ELSE "reading"
    /\ UNCHANGED <<now, disk, opNewData, opCurrent, tickerPool, unhandled, exited,
                   thVars, ingVars, agVars, watchVars, wipeVars, sfVars, finVars, ptVars, adVars, clkVars, mgVars, rtVars, dpVars, fbVars, sdVars, snVars, wfVars, bpVars>>

\* processTickerPool's safeReadFile wakes in acquireLock's loop.
PoolWake ==
    /\ ~exited
    /\ poolPc = "reading"
    /\ opPc[PoolCall] = "waiting"
    /\ AcquireStep(PoolCall, opStart[PoolCall])
    /\ poolPc' = IF opPc'[PoolCall] = "failed" THEN "ended" ELSE "reading"
    /\ UNCHANGED <<now, disk, opKind, opNewData, opCurrent, tickerPool, unhandled, exited,
                   thVars, ingVars, agVars, watchVars, wipeVars, sfVars, finVars, ptVars, adVars, clkVars, mgVars, rtVars, dpVars, fbVars, sdVars, snVars, wfVars, bpVars>>

\* processTickerPool's safeReadFile returns: a non-empty document refills the
\* pool; the loop sleeps a second and continues.
PoolReadDone ==
    /\ ~exited
    /\ poolPc = "reading"
    /\ opPc[PoolCall] = "reading"
    /\ lockSet' = releaseLock(lockSet, Path)
    /\ lockOwner' = 0
    /\ opPc' = [opPc EXCEPT ![PoolCall] = "done"]
    /\ tickerPool' = IF DOMAIN disk[Path] # {} THEN DOMAIN disk[Path] ELSE tickerPool
    /\ poolPc' = "loop"
    /\ UNCHANGED <<now, disk, fileState, opKind, opStart, opNewData, opCurrent,
                   staleTakeover, opWaited, initDoc, unhandled, exited,
                   thVars, ingVars, agVars, watchVars, wipeVars, sfVars, finVars, ptVars, adVars, clkVars, mgVars, rtVars, dpVars, fbVars, sdVars, snVars, wfVars, bpVars>>

\* watchTickersFile: tickers.json has been changed to d by another process and
\* the "change" handler calls initializeTickerPool, which calls safeReadFile.
\* Nothing catches a throw of acquireLock: the handler's promise is rejected,
\* which ends the process or only warns, depending on the Node version.
OnChange(o, d, exits) ==
    /\ ~exited
    /\ o \in HandlerCalls
    /\ CallFree(o)
    /\ disk' = [disk EXCEPT ![Path] = d]
    /\ opKind' = [opKind EXCEPT ![o] = "read"]
    /\ AcquireStep(o, now)
    /\ unhandled' = (unhandled \/ opPc'[o] = "failed")
    /\ exited' = (opPc'[o] = "failed" /\ exits)
    /\ UNCHANGED <<now, opNewData, opCurrent, poolPc, tickerPool,
                   thVars, ingVars, agVars, watchVars, wipeVars, sfVars, finVars, ptVars, adVars, clkVars, mgVars, rtVars, dpVars, fbVars, sdVars, snVars, wfVars, bpVars>>

\* A handler's safeReadFile wakes in acquireLock's loop.
HandlerWake(o, exits) ==
    /\ ~exited
    /\ o \in HandlerCalls
    /\ opPc[o] = "waiting"
    /\ AcquireStep(o, opStart[o])
    /\ unhandled' = (unhandled \/ opPc'[o] = "failed")
    /\ exited' = (opPc'[o] = "failed" /\ exits)
    /\ UNCHANGED <<now, disk, opKind, opNewData, opCurrent, poolPc, tickerPool,
                   thVars, ingVars, agVars, watchVars, wipeVars, sfVars, finVars, ptVars, adVars, clkVars, mgVars, rtVars, dpVars, fbVars, sdVars, snVars, wfVars, bpVars>>

\* A handler's safeReadFile returns: initializeTickerPool replaces the pool
\* unless the document is empty.
HandlerReadDone(o) ==
    /\ ~exited
    /\ o \in HandlerCalls
    /\ opPc[o] = "reading"
    /\ lockSet' = releaseLock(lockSet, Path)
    /\ lockOwner' = 0
    /\ opPc' = [opPc EXCEPT ![o] = "done"]
    /\ tickerPool' = IF DOMAIN disk[Path] # {} THEN DOMAIN disk[Path] ELSE tickerPool
    /\ UNCHANGED <<now, disk, fileState, opKind, opStart, opNewData, opCurrent,
                   staleTakeover, opWaited, initDoc, poolPc, unhandled, exited,
                   thVars, ingVars, agVars, watchVars, wipeVars, sfVars, finVars, ptVars, adVars, clkVars, mgVars, rtVars, dpVars, fbVars, sdVars, snVars, wfVars, bpVars>>

\* Time passes in the agent's process.
PoolTick ==
    /\ ~exited
    /\ Tick
    /\ UNCHANGED <<poolVars, thVars, ingVars, agVars, watchVars, wipeVars, sfVars, finVars, ptVars, adVars, clkVars, mgVars, rtVars, dpVars, fbVars, sdVars, snVars, wfVars, bpVars>>

PoolIdle ==
    /\ poolPc = "off"
    /\ tickerPool = {}
    /\ unhandled = FALSE
    /\ exited = FALSE

\* main has run initializeTickerPool on tickers.json and started the loop.
PoolInit ==
    /\ now = 0
    /\ lockSet = [p \in {} |-> 0]
    /\ disk \in [Paths -> PoolDocs]
    /\ fileState = [p \in Paths |-> "json"]
    /\ initDoc = disk[Path]
    /\ opWaited = [o \in Ops |-> FALSE]
    /\ opPc = [o \in Ops |-> "idle"]
    /\ opKind = [o \in Ops |-> "none"]
    /\ opStart = [o \in Ops |-> 0]
    /\ opNewData = [o \in Ops |-> EmptyDoc]
    /\ opCurrent = [o \in Ops |-> EmptyDoc]
    /\ staleTakeover = FALSE
    /\ lockOwner = 0
    /\ poolPc = "loop"
    /\ tickerPool = DOMAIN disk[Path]
    /\ unhandled = FALSE
    /\ exited = FALSE

PoolNext ==
    \/ PoolRefresh
    \/ PoolWake
    \/ PoolReadDone
    \/ \E o \in HandlerCalls, d \in PoolDocs, exits \in BOOLEAN : OnChange(o, d, exits)
    \/ \E o \in HandlerCalls, exits \in BOOLEAN : HandlerWake(o, exits)
    \/ \E o \in HandlerCalls : HandlerReadDone(o)
    \/ PoolTick

(***************************************************************************)
(* The change-driven agents: file watcher, debounce timer, interval timer  *)
(***************************************************************************)
\* check-for-news.js: debounce of startFileWatcher, CHECK_INTERVAL of the
\* second script
NEWS_Debounce == 500
NEWS_CHECK_INTERVAL == 1000
\* part_007: debounce of watchFile
P7_Debounce == 5000
\* filings_scraper.js: Math.floor(Math.random() * 3000)
FIL_MaxRandomDelay == 3000

\* Granularity of time and of the random delays, end of time, notifications
\* and concurrently running passes in one behaviour.
WTick == 500
RandomStep == 1000
MaxWatchTime == 6500
MaxNotes == 3
MaxRunning == 2

\* fileChangeTimeout undefined or cleared; no interval timer set
NoTimer == -1

WatchAgents == {"check-for-news", "part_007", "filings_scraper", "financials_scraper", "short_scraper"}

\* financials_scraper.js watchFile: setTimeout(..., 500);
\* short_scraper.js watchFile: Math.floor(Math.random() * 3000) + 2000
FIN_Debounce == 500
SHS_MinRandomDelay == 2000
SHS_RandomSpan == 3000

\* The delays a notification may arm the debounce timer with.
DelaysOf(agent) ==
    CASE agent = "check-for-news" -> {NEWS_Debounce}
      [] agent = "part_007" -> {P7_Debounce}
      [] agent = "financials_scraper" -> {FIN_Debounce}
      [] agent = "short_scraper" -> {SHS_MinRandomDelay + k * RandomStep : k \in 0..((SHS_RandomSpan - 1) \div RandomStep)}
      [] OTHER -> {k * RandomStep : k \in 0..((FIL_MaxRandomDelay - 1) \div RandomStep)}

AllDelays == UNION {DelaysOf(agent) : agent \in WatchAgents}

\* financials_scraper.js main: watchFile() is called after the startup pass.
StartupRunning == \E i \in 1..Len(wPasses) : wPasses[i].by = "startup"

\* A pass started by trigger by at the current time.
PassOf(by) == [by |-> by, at |-> wnow]

\* The watcher's "change" handler runs: the pending timer is cleared and
\*   check-for-news.js   a new timer is armed;
\*   filings_scraper.js  a new timer with a random delay is armed;
\*   part_007            a new timer is armed only if processing is false,
\*                       and processing is set at once;
\*   financials_scraper.js, short_scraper.js
\*                       nothing happens while isProcessing is true (and, in
\*                       financials_scraper.js, before watchFile() is called
\*                       at the end of the startup pass), else a new timer
\*                       is armed.
Notify(d) ==
    /\ wAgent \in WatchAgents
    /\ d \in DelaysOf(wAgent)
    /\ wNotes < MaxNotes
    /\ LET ignored == CASE wAgent = "part_007" -> processing
                        [] wAgent = "financials_scraper" -> processing \/ StartupRunning
                        [] wAgent = "short_scraper" -> processing
                        [] OTHER -> FALSE
       IN
       /\ wMissed' = (wMissed \/ ignored)
       /\ IF wAgent = "part_007"
          THEN IF ~processing
               THEN /\ processing' = TRUE
                    /\ fileChangeTimeout' = wnow + d
               ELSE /\ fileChangeTimeout' = NoTimer
                    /\ UNCHANGED processing
          ELSE IF ignored
               THEN UNCHANGED <<fileChangeTimeout, processing>>
               ELSE /\ fileChangeTimeout' = wnow + d
                    /\ UNCHANGED processing
    /\ wNotes' = wNotes + 1
    /\ wLastNote' = wnow
    /\ wLastDelay' = d
    /\ wClean' = /\ wClean
                 /\ wPasses = <<>>
                 /\ (wNotes = 0 \/ wnow - wLastNote < wLastDelay)
    /\ UNCHANGED <<wEscaped, wAgent, wnow, intervalDue, lastProcessedTime, wPasses,
                   wWatcherStarts, wStartAt,
                   lockVars, thVars, ingVars, agVars, poolVars, wipeVars, sfVars, finVars, ptVars, adVars, clkVars, mgVars, rtVars, dpVars, fbVars, sdVars, snVars, wfVars, bpVars>>

\* The debounce timer fires: its callback starts a pass; in
\* filings_scraper.js and short_scraper.js only if the guard flag is false,
\* which it then sets; in financials_scraper.js it sets the flag unasked.
TimerFire ==
    /\ wAgent \in WatchAgents
    /\ fileChangeTimeout = wnow
    /\ fileChangeTimeout' = NoTimer
    /\ IF wAgent \in {"filings_scraper", "short_scraper"} /\ processing
       THEN /\ wMissed' = TRUE
            /\ UNCHANGED <<processing, wPasses, wWatcherStarts, wStartAt>>
       ELSE /\ Len(wPasses) < MaxRunning
            /\ wPasses' = Append(wPasses, PassOf("watcher"))
            /\ processing' = IF wAgent \in {"filings_scraper", "short_scraper", "financials_scraper"}
                              THEN TRUE ELSE processing
            /\ wMissed' = FALSE
            /\ wWatcherStarts' = wWatcherStarts + 1
            /\ wStartAt' = wnow
    /\ UNCHANGED <<wEscaped, wAgent, wnow, intervalDue, lastProcessedTime,
                   wNotes, wLastNote, wLastDelay, wClean,
                   lockVars, thVars, ingVars, agVars, poolVars, wipeVars, sfVars, finVars, ptVars, adVars, clkVars, mgVars, rtVars, dpVars, fbVars, sdVars, snVars, wfVars, bpVars>>

\* check-for-news.js main: the setInterval callback runs; it starts a pass
\* when CHECK_INTERVAL has elapsed since lastProcessedTime.
IntervalFire ==
    /\ wAgent = "check-for-news"
    /\ intervalDue = wnow
    /\ intervalDue' = wnow + NEWS_CHECK_INTERVAL
    /\ IF wnow - lastProcessedTime >= NEWS_CHECK_INTERVAL
       THEN /\ Len(wPasses) < MaxRunning
            /\ wPasses' = Append(wPasses, PassOf("interval"))
            /\ wMissed' = FALSE
       ELSE UNCHANGED <<wPasses, wMissed>>
    /\ UNCHANGED <<wEscaped, wAgent, wnow, fileChangeTimeout, processing, lastProcessedTime,
                   wNotes, wLastNote, wLastDelay, wClean, wWatcherStarts, wStartAt,
                   lockVars, thVars, ingVars, agVars, poolVars, wipeVars, sfVars, finVars, ptVars, adVars, clkVars, mgVars, rtVars, dpVars, fbVars, sdVars, snVars, wfVars, bpVars>>

\* The sequence without its i-th element.
RemoveAt(q, i) == SubSeq(q, 1, i - 1) \o SubSeq(q, i + 1, Len(q))

\* A pass ends and the code after its await runs:
\*   startup pass of check-for-news.js  lastProcessedTime = Date.now(), setInterval;
\*   interval pass                      lastProcessedTime = currentTime;
\*   watcher pass of part_007 and filings_scraper.js  processing = false.
PassEnd(i) ==
    /\ wAgent \in WatchAgents
    /\ i \in 1..Len(wPasses)
    /\ wPasses' = RemoveAt(wPasses, i)
    /\ LET pass == wPasses[i] IN
       /\ lastProcessedTime' =
            IF wAgent = "check-for-news" /\ pass.by = "startup" THEN wnow
            ELSE IF pass.by = "interval" THEN pass.at
            ELSE lastProcessedTime
       /\ intervalDue' =
            IF wAgent = "check-for-news" /\ pass.by = "startup"
            THEN wnow + NEWS_CHECK_INTERVAL
            ELSE intervalDue
       /\ processing' =
            IF wAgent # "check-for-news" /\ pass.by = "watcher" THEN FALSE
            ELSE processing
    /\ UNCHANGED <<wMissed, wEscaped, wAgent, wnow, fileChangeTimeout,
                   wNotes, wLastNote, wLastDelay, wClean, wWatcherStarts, wStartAt,
                   lockVars, thVars, ingVars, agVars, poolVars, wipeVars, sfVars, finVars, ptVars, adVars, clkVars, mgVars, rtVars, dpVars, fbVars, sdVars, snVars, wfVars, bpVars>>

\* A watcher pass of filings_scraper.js ends with an error: main rejects
\* (readTickersFromFile rethrows, writeProcessedTickers has no catch) and the
\* timer callback has no try around `await main()`, so `processing = false`
\* is not reached and the rejection is unhandled.
PassThrow(i) ==
    /\ wAgent = "filings_scraper"
    /\ i \in 1..Len(wPasses)
    /\ wPasses[i].by = "watcher"
    /\ wPasses' = RemoveAt(wPasses, i)
    /\ wEscaped' = TRUE
    /\ UNCHANGED <<wMissed, wAgent, wnow, fileChangeTimeout, processing, intervalDue, lastProcessedTime,
                   wNotes, wLastNote, wLastDelay, wClean, wWatcherStarts, wStartAt,
                   lockVars, thVars, ingVars, agVars, poolVars, wipeVars, sfVars, finVars, ptVars, adVars, clkVars, mgVars, rtVars, dpVars, fbVars, sdVars, snVars, wfVars, bpVars>>

\* The timers that are set.
DueTimes == {fileChangeTimeout, intervalDue} \ {NoTimer}

\* Time passes, up to the next timer that is due: a due timer fires before
\* time moves on.
WatchTick ==
    /\ wAgent \in WatchAgents
    /\ wnow < MaxWatchTime
    /\ wnow \notin DueTimes
    /\ LET next == {t \in DueTimes : t > wnow /\ t < wnow + WTick} IN
       wnow' = IF next = {} THEN wnow + WTick
               ELSE CHOOSE t \in next : \A u \in next : t <= u
    /\ UNCHANGED <<wMissed, wEscaped, wAgent, fileChangeTimeout, processing, intervalDue,
                   lastProcessedTime, wPasses, wNotes, wLastNote, wLastDelay,
                   wClean, wWatcherStarts, wStartAt,
                   lockVars, thVars, ingVars, agVars, poolVars, wipeVars, sfVars, finVars, ptVars, adVars, clkVars, mgVars, rtVars, dpVars, fbVars, sdVars, snVars, wfVars, bpVars>>

WatchIdle ==
    /\ wAgent = "none"
    /\ wnow = 0
    /\ fileChangeTimeout = NoTimer
    /\ processing = FALSE
    /\ intervalDue = NoTimer
    /\ lastProcessedTime = 0
    /\ wPasses = <<>>
    /\ wNotes = 0
    /\ wLastNote = 0
    /\ wLastDelay = 0
    /\ wClean = TRUE
    /\ wWatcherStarts = 0
    /\ wStartAt = 0
    /\ wEscaped = FALSE
    /\ wMissed = FALSE

\* The agent has started: its watcher is set up and its startup pass runs.
WatchInit ==
    /\ wAgent \in WatchAgents
    /\ wnow = 0
    /\ fileChangeTimeout = NoTimer
    /\ processing = FALSE
    /\ intervalDue = NoTimer
    /\ lastProcessedTime = 0
    /\ wPasses = <<[by |-> "startup", at |-> 0]>>
    /\ wNotes = 0
    /\ wLastNote = 0
    /\ wLastDelay = 0
    /\ wClean = TRUE
    /\ wWatcherStarts = 0
    /\ wStartAt = 0
    /\ wEscaped = FALSE
    /\ wMissed = FALSE

WatchNext ==
    \/ \E d \in AllDelays : Notify(d)
    \/ TimerFire
    \/ IntervalFire
    \/ \E i \in 1..MaxRunning : PassEnd(i)
    \/ \E i \in 1..MaxRunning : PassThrow(i)
    \/ WatchTick

(***************************************************************************)
(* The daily reset check (wipeUtil.js, ticker.js, short_scraper.js)        *)
(***************************************************************************)
HoursPerDay == 24

\* The first instant, the step of the clock, the last instant, and how many
\* days back the stored last-wipe date may lie at start.
StartHour == 96
HourStep == 6
EndHour == 150
MaxDaysBack == 2

WipeVariants == {"wipeUtil.js", "ticker.js", "short_scraper.js"}
StoreNames == {"tickers.json", "filings.json", "shorts.json"}
TzOffsets == {-5, 0, 2}

\* A store that agents have written to.
SomeDoc == [k \in {"T1"} |-> 1]

\* date.toISOString(): the instant as UTC calendar day and hour of day
toISOString(t) == [present |-> TRUE, day |-> t \div HoursPerDay, hour |-> t % HoursPerDay]

\* new Date(isoString)
ParseDate(iso) == iso.day * HoursPerDay + iso.hour

\* The last-wipe file does not exist (readFile fails with ENOENT).
MissingFile == [present |-> FALSE, day |-> 0, hour |-> 0]

\* setToMidnight(date): 00:00 local time of the date's local day
setToMidnight(t) == ((t + tzOffset) \div HoursPerDay) * HoursPerDay - tzOffset

\* A reset check that wipes whatever the stored date.
WipeAlways(stored, currentDate) == TRUE

\* !lastWipeDate || currentDate > lastWipeDate (ENOENT takes the same writes)
WipeNeeded(stored, currentDate) ==
    \/ ~stored.present
    \/ currentDate > setToMidnight(ParseDate(stored))

\* wipeUtil.js checkAndResetJsonFiles: every path gets "{}" by fs.writeFile.
CheckAndResetJsonFiles ==
    /\ wipeVariant = "wipeUtil.js"
    /\ LET currentDate == setToMidnight(wipeNow) IN
       IF WipeNeeded(lastWipeFile, currentDate)
       THEN /\ stores' = [p \in StoreNames |-> EmptyDoc]
            /\ lastWipeFile' = toISOString(currentDate)
            /\ wipeCount' = wipeCount + 1
       ELSE UNCHANGED <<stores, lastWipeFile, wipeCount>>
    /\ UNCHANGED <<wipeVariant, wipeNow, tzOffset,
                   lockVars, thVars, ingVars, agVars, poolVars, watchVars, sfVars, finVars, ptVars, adVars, clkVars, mgVars, rtVars, dpVars, fbVars, sdVars, snVars, wfVars, bpVars>>

\* ticker.js checkAndWipeIfNeeded: tickers.json gets "{}" by fs.writeFile.
CheckAndWipeIfNeeded ==
    /\ wipeVariant = "ticker.js"
    /\ LET currentDateAtMidnight == setToMidnight(wipeNow) IN
       IF WipeNeeded(lastWipeFile, currentDateAtMidnight)
       THEN /\ stores' = [stores EXCEPT !["tickers.json"] = EmptyDoc]
            /\ lastWipeFile' = toISOString(currentDateAtMidnight)
            /\ wipeCount' = wipeCount + 1
       ELSE UNCHANGED <<stores, lastWipeFile, wipeCount>>
    /\ UNCHANGED <<wipeVariant, wipeNow, tzOffset,
                   lockVars, thVars, ingVars, agVars, poolVars, watchVars, sfVars, finVars, ptVars, adVars, clkVars, mgVars, rtVars, dpVars, fbVars, sdVars, snVars, wfVars, bpVars>>

\* short_scraper.js checkAndWipeIfNeeded: every store gets
\* safeWriteFile(path, {}), which writes { ...currentData, ...{} }.
CheckAndWipeIfNeededSafe ==
    /\ wipeVariant = "short_scraper.js"
    /\ LET currentDateAtMidnight == setToMidnight(wipeNow) IN
       IF WipeNeeded(lastWipeFile, currentDateAtMidnight)
       THEN /\ stores' = [p \in StoreNames |-> ShallowMerge(stores[p], EmptyDoc)]
            /\ lastWipeFile' = toISOString(currentDateAtMidnight)
            /\ wipeCount' = wipeCount + 1
       ELSE UNCHANGED <<stores, lastWipeFile, wipeCount>>
    /\ UNCHANGED <<wipeVariant, wipeNow, tzOffset,
                   lockVars, thVars, ingVars, agVars, poolVars, watchVars, sfVars, finVars, ptVars, adVars, clkVars, mgVars, rtVars, dpVars, fbVars, sdVars, snVars, wfVars, bpVars>>

\* An agent writes data to one of the stores.
StoreWritten(p) ==
    /\ wipeVariant \in WipeVariants
    /\ stores[p] = EmptyDoc
    /\ stores' = [stores EXCEPT ![p] = SomeDoc]
    /\ UNCHANGED <<wipeVariant, wipeNow, tzOffset, lastWipeFile, wipeCount,
                   lockVars, thVars, ingVars, agVars, poolVars, watchVars, sfVars, finVars, ptVars, adVars, clkVars, mgVars, rtVars, dpVars, fbVars, sdVars, snVars, wfVars, bpVars>>

\* Time passes.
HoursPass ==
    /\ wipeVariant \in WipeVariants
    /\ wipeNow + HourStep <= EndHour
    /\ wipeNow' = wipeNow + HourStep
    /\ UNCHANGED <<wipeVariant, tzOffset, lastWipeFile, stores, wipeCount,
                   lockVars, thVars, ingVars, agVars, poolVars, watchVars, sfVars, finVars, ptVars, adVars, clkVars, mgVars, rtVars, dpVars, fbVars, sdVars, snVars, wfVars, bpVars>>

WipeIdle ==
    /\ wipeVariant = "none"
    /\ wipeNow = 0
    /\ tzOffset = 0
    /\ lastWipeFile = MissingFile
    /\ stores = [p \in StoreNames |-> EmptyDoc]
    /\ wipeCount = 0

\* The process starts with the stores as the agents left them and the
\* last-wipe file missing or as an earlier check wrote it.
WipeInit ==
    /\ wipeVariant \in WipeVariants
    /\ wipeNow = StartHour
    /\ tzOffset \in TzOffsets
    /\ lastWipeFile \in {MissingFile} \cup
          {toISOString(setToMidnight(StartHour - back * HoursPerDay)) : back \in 0..MaxDaysBack}
    /\ stores \in [StoreNames -> {EmptyDoc, SomeDoc}]
    /\ wipeCount = 0

WipeNext ==
    \/ CheckAndResetJsonFiles
    \/ CheckAndWipeIfNeeded
    \/ CheckAndWipeIfNeededSafe
    \/ \E p \in StoreNames : StoreWritten(p)
    \/ HoursPass

(***************************************************************************)
(* The shorts fetcher (short_scraper.js, part_008): fetchStockData         *)
(***************************************************************************)
\* Math.floor(Math.random() * 10000) + 10000
SHF_DelayBase == 10000
SHF_DelaySpan == 10000
\* attempt <= 3, Math.min(20000 * attempt, 60000)
SHF_RetryLimit == 3
SHF_RetryStep == 20000
SHF_MaxRetryDelay == 60000

\* Fetch attempts of one call explored.
MaxFetches == 6

\* The random delays before a request: the least, a middle and the greatest.
SHF_Delays == {SHF_DelayBase, SHF_DelayBase + SHF_DelaySpan \div 2, SHF_DelayBase + SHF_DelaySpan - 1}

PageResponses == {"ok", "429", "error"}

\* A fetcher that retries whatever the attempt number.
RetryAlways(attempt) == TRUE

\* attempt <= 3
RetryAllowed(attempt) == attempt <= SHF_RetryLimit

\* Math.min(20000 * attempt, 60000)
RetryDelayOf(attempt) == Min(SHF_RetryStep * attempt, SHF_MaxRetryDelay)

\* fetchStockData: the random delay has been slept and the page is requested.
SfRequest(delay) ==
    /\ sfPc = "delay"
    /\ Len(sfWaits) < MaxFetches
    /\ sfWaits' = Append(sfWaits, sfRetryDelay + delay)
    /\ sfPc' = "request"
    /\ UNCHANGED <<sfAttempt, sfRetryDelay, sfResult, sfAll429,
                   lockVars, thVars, ingVars, agVars, poolVars, watchVars, wipeVars, finVars, ptVars, adVars, clkVars, mgVars, rtVars, dpVars, fbVars, sdVars, snVars, wfVars, bpVars>>

\* fetchStockData: page.goto has answered. A 429 is retried after the retry
\* delay with attempt + 1 while attempt <= 3, else the call returns null; any
\* other failure returns null; a loaded page returns its data.
SfResponse(r) ==
    /\ sfPc = "request"
    /\ sfAll429' = (sfAll429 /\ r = "429")
    /\ IF r = "429" /\ RetryAllowed(sfAttempt)
       THEN /\ sfRetryDelay' = RetryDelayOf(sfAttempt)
            /\ sfAttempt' = sfAttempt + 1
            /\ sfPc' = "delay"
            /\ UNCHANGED sfResult
       ELSE /\ sfResult' = IF r = "ok" THEN "data" ELSE "null"
            /\ sfPc' = "returned"
            /\ UNCHANGED <<sfAttempt, sfRetryDelay>>
    /\ UNCHANGED <<sfWaits, lockVars, thVars, ingVars, agVars, poolVars, watchVars, wipeVars, finVars, ptVars, adVars, clkVars, mgVars, rtVars, dpVars, fbVars, sdVars, snVars, wfVars, bpVars>>

ShortsFetchIdle ==
    /\ sfPc = "off"
    /\ sfAttempt = 0
    /\ sfRetryDelay = 0
    /\ sfResult = "none"
    /\ sfWaits = <<>>
    /\ sfAll429 = TRUE

\* fetchStockData(ticker) has been called: attempt = 1.
ShortsFetchInit ==
    /\ sfPc = "delay"
    /\ sfAttempt = 1
    /\ sfRetryDelay = 0
    /\ sfResult = "none"
    /\ sfWaits = <<>>
    /\ sfAll429 = TRUE

ShortsFetchNext ==
    \/ \E delay \in SHF_Delays : SfRequest(delay)
    \/ \E r \in PageResponses : SfResponse(r)

(***************************************************************************)
(* The financials agent (financials_scraper.js): processTickers            *)
(***************************************************************************)
\* const MAX_RETRIES = 50
MAX_RETRIES == 50

\* Nested processTickers calls counted before the count saturates.
MaxRounds == 3

\* Object.keys(tickers.json): every key once.
FinTickerLists == {<<>>, <<"T1">>, <<"T2">>, <<"T1", "T2">>, <<"T2", "T1">>}

\* axios.get: results, no results, a 429, another failure.
FinResponses == {"data", "none", "429", "error"}

\* for (const ticker of tickers): if (processedTickers.has(ticker)) continue
FinSkip ==
    /\ finPc = "loop"
    /\ finIndex <= Len(finTickers)
    /\ finTickers[finIndex] \in finProcessedTickers
    /\ finIndex' = finIndex + 1
    /\ UNCHANGED <<finPc, finTickers, retryPool, finProcessedTickers, finAttempt, finWritten, finRounds,
                   lockVars, thVars, ingVars, agVars, poolVars, watchVars, wipeVars, sfVars, ptVars, adVars, clkVars, mgVars, rtVars, dpVars, fbVars, sdVars, snVars, wfVars, bpVars>>

\* const data = await fetchFinancials(ticker): attempt = 1, the delay is slept
\* and the request is sent.
FinFetch ==
    /\ finPc = "loop"
    /\ finIndex <= Len(finTickers)
    /\ finTickers[finIndex] \notin finProcessedTickers
    /\ finPc' = "fetch"
    /\ finAttempt' = 1
    /\ UNCHANGED <<finTickers, finIndex, retryPool, finProcessedTickers, finWritten, finRounds,
                   lockVars, thVars, ingVars, agVars, poolVars, watchVars, wipeVars, sfVars, ptVars, adVars, clkVars, mgVars, rtVars, dpVars, fbVars, sdVars, snVars, wfVars, bpVars>>

\* The request of fetchFinancials is answered and processTickers handles what
\* fetchFinancials returns. A 429 is retried while attempt <= MAX_RETRIES;
\* results are written and the ticker marked processed; no results mark the
\* ticker processed; everything else returns null and the ticker is pushed to
\* retryPool.
FinResponse(r) ==
    /\ finPc = "fetch"
    /\ LET ticker == finTickers[finIndex] IN
       IF r = "429" /\ finAttempt <= MAX_RETRIES
       THEN /\ finAttempt' = finAttempt + 1
            /\ UNCHANGED <<finPc, finIndex, retryPool, finProcessedTickers, finWritten>>
       ELSE /\ finPc' = "loop"
            /\ finIndex' = finIndex + 1
            /\ finAttempt' = 0
            /\ finWritten' = IF r = "data" THEN finWritten \cup {ticker} ELSE finWritten
            /\ finProcessedTickers' = IF r \in {"data", "none"}
                                      THEN finProcessedTickers \cup {ticker}
                                      ELSE finProcessedTickers
            /\ retryPool' = IF r \in {"data", "none"} THEN retryPool ELSE Append(retryPool, ticker)
    /\ UNCHANGED <<finTickers, finRounds,
                   lockVars, thVars, ingVars, agVars, poolVars, watchVars, wipeVars, sfVars, ptVars, adVars, clkVars, mgVars, rtVars, dpVars, fbVars, sdVars, snVars, wfVars, bpVars>>

\* if (retryPool.length > 0): retries = [...retryPool]; retryPool.length = 0;
\* await processTickers(retries)
FinRetry ==
    /\ finPc = "loop"
    /\ finIndex > Len(finTickers)
    /\ Len(retryPool) > 0
    /\ finTickers' = retryPool
    /\ retryPool' = <<>>
    /\ finIndex' = 1
    /\ finRounds' = Min(finRounds + 1, MaxRounds)
    /\ UNCHANGED <<finPc, finProcessedTickers, finAttempt, finWritten,
                   lockVars, thVars, ingVars, agVars, poolVars, watchVars, wipeVars, sfVars, ptVars, adVars, clkVars, mgVars, rtVars, dpVars, fbVars, sdVars, snVars, wfVars, bpVars>>

\* The loop is over and retryPool is empty: processTickers, and every call
\* it is nested in, returns.
FinEnd ==
    /\ finPc = "loop"
    /\ finIndex > Len(finTickers)
    /\ Len(retryPool) = 0
    /\ finPc' = "done"
    /\ UNCHANGED <<finTickers, finIndex, retryPool, finProcessedTickers, finAttempt, finWritten, finRounds,
                   lockVars, thVars, ingVars, agVars, poolVars, watchVars, wipeVars, sfVars, ptVars, adVars, clkVars, mgVars, rtVars, dpVars, fbVars, sdVars, snVars, wfVars, bpVars>>

FinPassIdle ==
    /\ finPc = "off"
    /\ finTickers = <<>>
    /\ finIndex = 0
    /\ retryPool = <<>>
    /\ finProcessedTickers = {}
    /\ finAttempt = 0
    /\ finWritten = {}
    /\ finRounds = 0

\* processTickers(tickers) has been called by main or by the watcher: the
\* retry pool is empty, earlier passes may have processed some tickers.
FinPassInit ==
    /\ finPc = "loop"
    /\ finTickers \in FinTickerLists
    /\ finIndex = 1
    /\ retryPool = <<>>
    /\ finProcessedTickers \in SUBSET Tickers
    /\ finAttempt = 0
    /\ finWritten = {}
    /\ finRounds = 0

FinPassNext ==
    \/ FinSkip
    \/ FinFetch
    \/ \E r \in FinResponses : FinResponse(r)
    \/ FinRetry
    \/ FinEnd

(***************************************************************************)
(* Processed tickers of the filings agent (filings_scraper.js) and of the  *)
(* shorts agents (short-scraper.js, short_scraper.js), and the daily wipe  *)
(***************************************************************************)
\* main() calls and process restarts explored.
MaxMains == 3
MaxRestarts == 1

ProcessedAgents == {"filings", "shorts", "short_scraper"}

\* The agents whose processNewTickers skips the tickers of the module-level
\* processedTickers set.
MemoryAgents == {"filings", "short_scraper"}

\* scrapeS3Filings / fetchStockData: something found, or nothing.
ScrapeResults == {"data", "none"}

RECURSIVE FilterNot(_, _)
\* allTickers.filter((ticker) => !processedTickersSet.has(ticker))
FilterNot(seq, set) ==
    IF seq = <<>> THEN <<>>
    ELSE IF Head(seq) \in set THEN FilterNot(Tail(seq), set)
         ELSE <<Head(seq)>> \o FilterNot(Tail(seq), set)

\* Object.keys(tickersJson), in key order.
KeysInOrder(keys) == FilterNot(TickerOrder, Tickers \ keys)

\* main: read tickers.json and the processed file, filter, and enter
\* processNewTickers when something is new. short_scraper.js has no
\* processed file: its main filters by the module-level set.
PtMain ==
    /\ ptPc = "idle"
    /\ ptMains < MaxMains
    /\ ptMains' = ptMains + 1
    /\ ptSet' = IF ptAgent = "short_scraper" THEN ptSet ELSE ptFile
    /\ ptNewTickers' = FilterNot(KeysInOrder(ptTickersJson),
                                 IF ptAgent = "short_scraper" THEN ptMemory ELSE ptFile)
    /\ ptIndex' = 1
    /\ ptPc' = IF ptNewTickers' = <<>> THEN "idle" ELSE "loop"
    /\ ptMainKeys' = ptTickersJson
    /\ UNCHANGED <<ptHandled, ptBefore, ptFetchedSince>>
    /\ UNCHANGED <<ptAgent, ptTickersJson, ptFile, ptMemory, ptRestarts, ptRecorded, ptRefetched,
                   lockVars, thVars, ingVars, agVars, poolVars, watchVars, wipeVars, sfVars, finVars, adVars, clkVars, mgVars, rtVars, dpVars, fbVars, sdVars, snVars, wfVars, bpVars>>

\* processNewTickers of filings_scraper.js and short_scraper.js:
\* if (processedTickers.has(ticker)) continue
PtSkip ==
    /\ ptPc = "loop"
    /\ ptAgent \in MemoryAgents
    /\ ptIndex <= Len(ptNewTickers)
    /\ ptNewTickers[ptIndex] \in ptMemory
    /\ ptIndex' = ptIndex + 1
    /\ UNCHANGED <<ptAgent, ptPc, ptTickersJson, ptFile, ptMemory, ptSet, ptNewTickers,
                   ptMains, ptRestarts, ptRecorded, ptRefetched, ptHistory,
                   lockVars, thVars, ingVars, agVars, poolVars, watchVars, wipeVars, sfVars, finVars, adVars, clkVars, mgVars, rtVars, dpVars, fbVars, sdVars, snVars, wfVars, bpVars>>

\* await scrapeS3Filings(ticker) / await fetchStockData(ticker) is started.
PtFetch ==
    /\ ptPc = "loop"
    /\ ptIndex <= Len(ptNewTickers)
    /\ ptAgent \in MemoryAgents => ptNewTickers[ptIndex] \notin ptMemory
    /\ ptPc' = "fetch"
    /\ ptRefetched' = (ptRefetched \/ ptNewTickers[ptIndex] \in ptFile)
    /\ ptFetchedSince' = ptFetchedSince \cup {ptNewTickers[ptIndex]}
    /\ UNCHANGED <<ptHandled, ptBefore, ptMainKeys>>
    /\ UNCHANGED <<ptAgent, ptTickersJson, ptFile, ptMemory, ptSet, ptNewTickers, ptIndex,
                   ptMains, ptRestarts, ptRecorded,
                   lockVars, thVars, ingVars, agVars, poolVars, watchVars, wipeVars, sfVars, finVars, adVars, clkVars, mgVars, rtVars, dpVars, fbVars, sdVars, snVars, wfVars, bpVars>>

\* The fetch has returned. filings: processedTickers.add(ticker) on the
\* module-level set and writeProcessedTickers() writes that set. shorts: with
\* data, processedTickers.add(ticker) on the set main read and
\* writeProcessedTickers(processedTickers) writes it; without data nothing.
\* short_scraper: with data, processedTickers.add(ticker) on the module-level
\* set; there is no processed file.
PtFetched(r) ==
    /\ ptPc = "fetch"
    /\ LET ticker == ptNewTickers[ptIndex] IN
       CASE ptAgent = "filings" ->
              /\ ptMemory' = ptMemory \cup {ticker}
              /\ ptFile' = ptMemory'
              /\ UNCHANGED ptSet
         [] ptAgent = "shorts" /\ r = "data" ->
              /\ ptSet' = ptSet \cup {ticker}
              /\ ptFile' = ptSet'
              /\ UNCHANGED ptMemory
         [] ptAgent = "short_scraper" /\ r = "data" ->
              /\ ptMemory' = ptMemory \cup {ticker}
              /\ UNCHANGED <<ptFile, ptSet>>
         [] OTHER ->
              UNCHANGED <<ptFile, ptMemory, ptSet>>
    /\ ptRecorded' = ptRecorded \cup ptFile'
    /\ ptHandled' = IF ptAgent = "filings" \/ r = "data"
                    THEN ptHandled \cup {ptNewTickers[ptIndex]} ELSE ptHandled
    /\ UNCHANGED <<ptBefore, ptFetchedSince, ptMainKeys>>
    /\ ptIndex' = ptIndex + 1
    /\ ptPc' = "loop"
    /\ UNCHANGED <<ptAgent, ptTickersJson, ptNewTickers, ptMains, ptRestarts, ptRefetched,
                   lockVars, thVars, ingVars, agVars, poolVars, watchVars, wipeVars, sfVars, finVars, adVars, clkVars, mgVars, rtVars, dpVars, fbVars, sdVars, snVars, wfVars, bpVars>>

\* The for loop is over: processNewTickers and main return.
PtEnd ==
    /\ ptPc = "loop"
    /\ ptIndex > Len(ptNewTickers)
    /\ ptPc' = "idle"
    /\ UNCHANGED <<ptAgent, ptTickersJson, ptFile, ptMemory, ptSet, ptNewTickers, ptIndex,
                   ptMains, ptRestarts, ptRecorded, ptRefetched, ptHistory,
                   lockVars, thVars, ingVars, agVars, poolVars, watchVars, wipeVars, sfVars, finVars, adVars, clkVars, mgVars, rtVars, dpVars, fbVars, sdVars, snVars, wfVars, bpVars>>

\* The add command puts a ticker into tickers.json (the watcher then calls main).
PtAddTicker(t) ==
    /\ ptPc # "off"
    /\ t \notin ptTickersJson
    /\ ptTickersJson' = ptTickersJson \cup {t}
    /\ UNCHANGED <<ptAgent, ptPc, ptFile, ptMemory, ptSet, ptNewTickers, ptIndex,
                   ptMains, ptRestarts, ptRecorded, ptRefetched, ptHistory,
                   lockVars, thVars, ingVars, agVars, poolVars, watchVars, wipeVars, sfVars, finVars, adVars, clkVars, mgVars, rtVars, dpVars, fbVars, sdVars, snVars, wfVars, bpVars>>

\* The process is stopped and started again: the files stay, the memory of
\* the process is new (const processedTickers = new Set()).
PtRestart ==
    /\ ptPc # "off"
    /\ ptRestarts < MaxRestarts
    /\ ptRestarts' = ptRestarts + 1
    /\ ptMemory' = {}
    /\ ptSet' = {}
    /\ ptNewTickers' = <<>>
    /\ ptIndex' = 0
    /\ ptPc' = "idle"
    /\ ptMainKeys' = {}
    /\ UNCHANGED <<ptHandled, ptBefore, ptFetchedSince>>
    /\ UNCHANGED <<ptAgent, ptTickersJson, ptFile, ptMains, ptRecorded, ptRefetched,
                   lockVars, thVars, ingVars, agVars, poolVars, watchVars, wipeVars, sfVars, finVars, adVars, clkVars, mgVars, rtVars, dpVars, fbVars, sdVars, snVars, wfVars, bpVars>>

\* The daily wipe (checkAndWipeIfNeeded of the display agent) empties
\* tickers.json and rewrites last-wipe.txt: the lastWipe stored in the
\* processed file no longer matches (data.lastWipe === wipeTime fails), so the
\* file reads as the empty set; the memory of the running process stays.
PtWipe ==
    /\ ptPc # "off"
    /\ ptHandled # {}
    /\ ptTickersJson' = {}
    /\ ptFile' = {}
    /\ ptRecorded' = {}
    /\ ptRefetched' = FALSE
    /\ ptBefore' = ptHandled
    /\ ptFetchedSince' = {}
    /\ ptMainKeys' = {}
    /\ UNCHANGED ptHandled
    /\ UNCHANGED <<ptAgent, ptPc, ptMemory, ptSet, ptNewTickers, ptIndex,
                   ptMains, ptRestarts,
                   lockVars, thVars, ingVars, agVars, poolVars, watchVars, wipeVars, sfVars, finVars, adVars, clkVars, mgVars, rtVars, dpVars, fbVars, sdVars, snVars, wfVars, bpVars>>

ProcessedIdle ==
    /\ ptAgent = "none"
    /\ ptPc = "off"
    /\ ptTickersJson = {}
    /\ ptFile = {}
    /\ ptMemory = {}
    /\ ptSet = {}
    /\ ptNewTickers = <<>>
    /\ ptIndex = 0
    /\ ptMains = 0
    /\ ptRestarts = 0
    /\ ptRecorded = {}
    /\ ptRefetched = FALSE
    /\ ptHandled = {}
    /\ ptBefore = {}
    /\ ptFetchedSince = {}
    /\ ptMainKeys = {}

\* The agent has just been started after a wipe: nothing is recorded yet.
ProcessedInit ==
    /\ ptAgent \in ProcessedAgents
    /\ ptPc = "idle"
    /\ ptTickersJson \in SUBSET Tickers
    /\ ptFile = {}
    /\ ptMemory = {}
    /\ ptSet = {}
    /\ ptNewTickers = <<>>
    /\ ptIndex = 0
    /\ ptMains = 0
    /\ ptRestarts = 0
    /\ ptRecorded = {}
    /\ ptRefetched = FALSE
    /\ ptHandled = {}
    /\ ptBefore = {}
    /\ ptFetchedSince = {}
    /\ ptMainKeys = {}

ProcessedNext ==
    \/ PtMain
    \/ PtSkip
    \/ PtFetch
    \/ \E r \in ScrapeResults : PtFetched(r)
    \/ PtEnd
    \/ \E t \in Tickers : PtAddTicker(t)
    \/ PtRestart
    \/ PtWipe

(***************************************************************************)
(* The add command run alone: appendTicker of ticker.js (fs.readFile,      *)
(* fs.writeFile) and of short_scraper.js (safeReadFile, safeWriteFile)     *)
(***************************************************************************)
\* Add commands typed one after the other.
MaxAdds == 2

AddVariants == {"fs", "safe"}

NoTicker == "none"

\* Records a tickers.json may hold for ticker t: with or without news,
\* active or not, with or without shorts.
TickerRecords(t) ==
    {[ticker |-> t, news |-> n, isActive |-> a] : n \in {<<>>, <<1>>}, a \in BOOLEAN}
    \cup {[ticker |-> t, news |-> n, isActive |-> a, shorts |-> 1] : n \in {<<>>, <<1>>}, a \in BOOLEAN}

\* The documents a tickers.json may hold.
TickerDocs ==
    UNION {{doc \in [S -> UNION {TickerRecords(t) : t \in S}] : \A t \in S : doc[t].ticker = t} :
           S \in SUBSET Tickers}

\* { ticker: sanitizedTicker, news: [], isActive: true }
AddedRecord(t) == [ticker |-> t, news |-> <<>>, isActive |-> TRUE]

\* tickers[sanitizedTicker].isActive = true
Reactivated(rec) ==
    [f \in DOMAIN rec \cup {"isActive"} |-> IF f = "isActive" THEN TRUE ELSE rec[f]]

\* An add that keeps nothing but the added ticker.
WithTickerAlone(tickers, t) == [k \in {t} |-> AddedRecord(t)]

\* if (!tickers[sanitizedTicker]) { create } else { reactivate }
WithTicker(tickers, t) ==
    IF t \notin DOMAIN tickers
    THEN [k \in DOMAIN tickers \cup {t} |-> IF k = t THEN AddedRecord(t) ELSE tickers[k]]
    ELSE [tickers EXCEPT ![t] = Reactivated(tickers[t])]

\* appendTicker up to its write. ticker.js: fs.readFile, ENOENT gives "{}",
\* JSON.parse may throw, which ends the command in its catch.
\* short_scraper.js: safeReadFile gives {} on every read error.
AdRead(t) ==
    /\ adPc = "idle"
    /\ adCount < MaxAdds
    /\ adCount' = adCount + 1
    /\ adCmd' = "add"
    /\ adTicker' = t
    /\ IF adVariant = "fs"
       THEN IF adFileState = "invalid"
            THEN /\ adPc' = "failed"
                 /\ UNCHANGED adTickers
            ELSE /\ adTickers' = WithTicker(IF adFileState = "json" THEN adFile ELSE EmptyDoc, t)
                 /\ adPc' = "write"
       ELSE /\ adTickers' = WithTicker(IF adFileState = "json" THEN adFile ELSE EmptyDoc, t)
            /\ adPc' = "merge"
    /\ UNCHANGED <<adVariant, adFileState, adFile, adCurrentData, adBefore, adStateBefore,
                   lockVars, thVars, ingVars, agVars, poolVars, watchVars, wipeVars, sfVars, finVars, ptVars, clkVars, mgVars, rtVars, dpVars, fbVars, sdVars, snVars, wfVars, bpVars>>

\* tickers[ticker].isActive = false
Deactivated(rec) ==
    [f \in DOMAIN rec \cup {"isActive"} |-> IF f = "isActive" THEN FALSE ELSE rec[f]]

\* The property names "0", "1", ... a spread string has.
IndexKey == <<"0", "1", "2", "3">>

\* JSON.stringify(tickers, null, 2): a text, here its pieces "{", one per
\* key, "}"; never empty.
Stringify(doc) == <<"{">> \o KeysOf(doc) \o <<"}">>

\* { ...text }: a string spreads into one property per index.
SpreadString(text) ==
    [k \in {IndexKey[i] : i \in 1..Len(text)} |->
        text[CHOOSE i \in 1..Len(text) : IndexKey[i] = k]]

\* What removeTicker hands to its write. ticker.js writes the document;
\* short_scraper.js passes JSON.stringify(tickers, null, 2) to safeWriteFile,
\* which spreads it.
RemoveArgument(variant, tickers) ==
    IF variant = "safe" THEN SpreadString(Stringify(tickers)) ELSE tickers

\* removeTicker up to its write: the file is read (ticker.js: a read error
\* ends the command; short_scraper.js: safeReadFile gives {}), and an unknown
\* ticker ends the command without a write.
AdRemove(t) ==
    /\ adPc = "idle"
    /\ adCount < MaxAdds
    /\ adCount' = adCount + 1
    /\ adCmd' = "remove"
    /\ adTicker' = t
    /\ LET tickers == IF adFileState = "json" THEN adFile ELSE EmptyDoc IN
       IF adVariant = "fs" /\ adFileState # "json"
       THEN /\ adPc' = "failed"
            /\ UNCHANGED adTickers
       ELSE IF t \notin DOMAIN tickers
            THEN /\ adPc' = "done"
                 /\ UNCHANGED adTickers
            ELSE /\ adTickers' = RemoveArgument(adVariant, [tickers EXCEPT ![t] = Deactivated(tickers[t])])
                 /\ adPc' = IF adVariant = "fs" THEN "write" ELSE "merge"
    /\ UNCHANGED <<adVariant, adFileState, adFile, adCurrentData, adBefore, adStateBefore,
                   lockVars, thVars, ingVars, agVars, poolVars, watchVars, wipeVars, sfVars, finVars, ptVars, clkVars, mgVars, rtVars, dpVars, fbVars, sdVars, snVars, wfVars, bpVars>>

\* clearTickers up to its write: every ticker read is marked inactive. A
\* property that holds a string cannot take isActive: the assignment throws
\* in a module (strict mode) and the command ends in its catch.
AdClear ==
    /\ adPc = "idle"
    /\ adCount < MaxAdds
    /\ adCount' = adCount + 1
    /\ adCmd' = "clear"
    /\ adTicker' = NoTicker
    /\ LET tickers == IF adFileState = "json" THEN adFile ELSE EmptyDoc IN
       IF \/ adVariant = "fs" /\ adFileState # "json"
          \/ \E i \in 1..Len(IndexKey) : IndexKey[i] \in DOMAIN tickers
       THEN /\ adPc' = "failed"
            /\ UNCHANGED adTickers
       ELSE /\ adTickers' = [k \in DOMAIN tickers |-> Deactivated(tickers[k])]
            /\ adPc' = IF adVariant = "fs" THEN "write" ELSE "merge"
    /\ UNCHANGED <<adVariant, adFileState, adFile, adCurrentData, adBefore, adStateBefore,
                   lockVars, thVars, ingVars, agVars, poolVars, watchVars, wipeVars, sfVars, finVars, ptVars, clkVars, mgVars, rtVars, dpVars, fbVars, sdVars, snVars, wfVars, bpVars>>

\* safeWriteFile: currentData = JSON.parse(await fs.readFile(filePath)); an
\* error is thrown again and ends the command in appendTicker's catch.
AdWriteRead ==
    /\ adPc = "merge"
    /\ IF adFileState = "json"
       THEN /\ adCurrentData' = adFile
            /\ adPc' = "write"
       ELSE /\ adPc' = "failed"
            /\ UNCHANGED adCurrentData
    /\ UNCHANGED <<adVariant, adFileState, adFile, adTicker, adTickers, adBefore, adStateBefore, adCount, adCmd,
                   lockVars, thVars, ingVars, agVars, poolVars, watchVars, wipeVars, sfVars, finVars, ptVars, clkVars, mgVars, rtVars, dpVars, fbVars, sdVars, snVars, wfVars, bpVars>>

\* ticker.js: fs.writeFile(tickerFilePath, JSON.stringify(tickers));
\* short_scraper.js: safeWriteFile writes { ...currentData, ...tickers }.
AdWrite ==
    /\ adPc = "write"
    /\ adFile' = IF adVariant = "fs" THEN adTickers ELSE ShallowMerge(adCurrentData, adTickers)
    /\ adFileState' = "json"
    /\ adPc' = "done"
    /\ UNCHANGED <<adVariant, adTicker, adTickers, adCurrentData, adBefore, adStateBefore, adCount, adCmd,
                   lockVars, thVars, ingVars, agVars, poolVars, watchVars, wipeVars, sfVars, finVars, ptVars, clkVars, mgVars, rtVars, dpVars, fbVars, sdVars, snVars, wfVars, bpVars>>

\* appendTicker has returned and the prompt takes the next command.
AdReturn ==
    /\ adPc \in {"done", "failed"}
    /\ adPc' = "idle"
    /\ adTicker' = NoTicker
    /\ adTickers' = EmptyDoc
    /\ adCurrentData' = EmptyDoc
    /\ adBefore' = adFile
    /\ adStateBefore' = adFileState
    /\ adCmd' = "none"
    /\ UNCHANGED <<adVariant, adFileState, adFile, adCount,
                   lockVars, thVars, ingVars, agVars, poolVars, watchVars, wipeVars, sfVars, finVars, ptVars, clkVars, mgVars, rtVars, dpVars, fbVars, sdVars, snVars, wfVars, bpVars>>

AddIdle ==
    /\ adVariant = "none"
    /\ adPc = "off"
    /\ adFileState = "json"
    /\ adFile = EmptyDoc
    /\ adTicker = NoTicker
    /\ adTickers = EmptyDoc
    /\ adCurrentData = EmptyDoc
    /\ adBefore = EmptyDoc
    /\ adStateBefore = "json"
    /\ adCount = 0
    /\ adCmd = "none"

\* The prompt is ready; tickers.json holds some document, is missing, or is
\* not JSON.
AddInit ==
    /\ adVariant \in AddVariants
    /\ adPc = "idle"
    /\ adFileState \in FileStates
    /\ adFile \in (IF adFileState = "json" THEN TickerDocs ELSE {EmptyDoc})
    /\ adTicker = NoTicker
    /\ adTickers = EmptyDoc
    /\ adCurrentData = EmptyDoc
    /\ adBefore = adFile
    /\ adStateBefore = adFileState
    /\ adCount = 0
    /\ adCmd = "none"

AddNext ==
    \/ \E t \in Tickers : AdRead(t)
    \/ \E t \in Tickers : AdRemove(t)
    \/ AdClear
    \/ AdWriteRead
    \/ AdWrite
    \/ AdReturn

(***************************************************************************)
(* The display agent's clear schedule (ticker.js): startTickerClearSchedule,*)
(* checkTimeForClear, clearTickers. Time is in seconds.                    *)
(***************************************************************************)
\* setInterval(..., 60000) and setInterval(..., 1000)
MinuteInterval == 60
SecondInterval == 1
\* currentHours === 15 && currentMinutes === 44 / 45
CLEAR_HOURS == 15
SWITCH_MINUTES == 44
CLEAR_MINUTES == 45

\* The schedule starts at ClockStart or up to MaxStartOffset seconds later
\* (15:42:00 onwards) and is followed until ClockEnd (15:45:05).
ClockStart == 56520
MaxStartOffset == 3
ClockEnd == 56705

\* now.getHours(), now.getMinutes()
getHours(t) == t \div 3600
getMinutes(t) == (t % 3600) \div 60

\* The bindings in scope in checkTimeForClear: the module's top-level names
\* and the function's own locals.
ClearScope == {"tickerFilePath", "logVerbose", "clearTickers", "now", "currentHours", "currentMinutes"}

\* A scope in which every name resolves.
InAnyScope(name) == TRUE

\* Reading a name succeeds if it is bound; else it throws a ReferenceError.
InScope(name) == name \in ClearScope

\* The minuteInterval callback: at 15:44 it stops itself and starts the
\* secondInterval.
ClkMinuteCheck ==
    /\ clkRunning
    /\ clkMode = "minute"
    /\ clkDue = clkNow
    /\ IF getHours(clkNow) = CLEAR_HOURS /\ getMinutes(clkNow) = SWITCH_MINUTES
       THEN /\ clkMode' = "second"
            /\ clkDue' = clkNow + SecondInterval
       ELSE /\ clkDue' = clkNow + MinuteInterval
            /\ UNCHANGED clkMode
    /\ UNCHANGED <<clkNow, clkRunning, clkFile, clkBefore,
                   lockVars, thVars, ingVars, agVars, poolVars, watchVars, wipeVars, sfVars, finVars, ptVars, adVars, mgVars, rtVars, dpVars, fbVars, sdVars, snVars, wfVars, bpVars>>

\* The secondInterval callback calls checkTimeForClear, which first reads
\* tickers[sanitizedTicker]: a ReferenceError there is uncaught in a timer
\* callback and ends the process. At 15:45 clearTickers marks every ticker
\* inactive and the interval is cleared.
ClkSecondCheck ==
    /\ clkRunning
    /\ clkMode = "second"
    /\ clkDue = clkNow
    /\ IF ~(InScope("tickers") /\ InScope("sanitizedTicker"))
       THEN /\ clkRunning' = FALSE
            /\ UNCHANGED <<clkMode, clkDue, clkFile>>
       ELSE IF getHours(clkNow) = CLEAR_HOURS /\ getMinutes(clkNow) = CLEAR_MINUTES
            THEN /\ clkFile' = [k \in DOMAIN clkFile |-> Deactivated(clkFile[k])]
                 /\ clkMode' = "cleared"
                 /\ UNCHANGED <<clkDue, clkRunning>>
            ELSE /\ clkDue' = clkNow + SecondInterval
                 /\ UNCHANGED <<clkMode, clkRunning, clkFile>>
    /\ UNCHANGED <<clkNow, clkBefore,
                   lockVars, thVars, ingVars, agVars, poolVars, watchVars, wipeVars, sfVars, finVars, ptVars, adVars, mgVars, rtVars, dpVars, fbVars, sdVars, snVars, wfVars, bpVars>>

\* A second passes; a due callback of a live process runs first.
ClkTick ==
    /\ clkMode # "off"
    /\ clkNow < ClockEnd
    /\ ~(clkRunning /\ clkMode \in {"minute", "second"} /\ clkDue = clkNow)
    /\ clkNow' = clkNow + 1
    /\ UNCHANGED <<clkMode, clkDue, clkRunning, clkFile, clkBefore,
                   lockVars, thVars, ingVars, agVars, poolVars, watchVars, wipeVars, sfVars, finVars, ptVars, adVars, mgVars, rtVars, dpVars, fbVars, sdVars, snVars, wfVars, bpVars>>

ClearIdle ==
    /\ clkNow = 0
    /\ clkMode = "off"
    /\ clkDue = 0
    /\ clkRunning = FALSE
    /\ clkFile = EmptyDoc
    /\ clkBefore = EmptyDoc

\* init has called startTickerClearSchedule.
ClearInit ==
    /\ clkNow \in ClockStart..(ClockStart + MaxStartOffset)
    /\ clkMode = "minute"
    /\ clkDue = clkNow + MinuteInterval
    /\ clkRunning = TRUE
    /\ clkFile \in TickerDocs
    /\ clkBefore = clkFile

ClearNext ==
    \/ ClkMinuteCheck
    \/ ClkSecondCheck
    \/ ClkTick

(***************************************************************************)
(* The merge handlers of the display process (short_scraper.js):           *)
(* watchShortsFile and watchFilingsFile, each one "change" event           *)
(***************************************************************************)
Handlers == {"shorts", "filings"}

NoData == "none"
SomeData == "data"

\* Records of tickers.json as far as the handlers touch them.
MergeRecords == [isActive : BOOLEAN, shorts : {NoData}, filings : {NoData}]

MergeDocs == UNION {[S -> MergeRecords] : S \in SUBSET Tickers}

\* tickersData[ticker] = { ticker, isActive: true }
MergeNewRecord == [isActive |-> TRUE, shorts |-> NoData, filings |-> NoData]

\* tickersData[ticker].shorts = ... / tickersData[ticker].filings = ...
SetField(rec, h) ==
    IF h = "shorts" THEN [rec EXCEPT !.shorts = SomeData] ELSE [rec EXCEPT !.filings = SomeData]

\* The for loop of a handler over the tickers its file has data for.
MergeInto(data, input, h) ==
    [t \in DOMAIN data \cup input |->
        IF t \in input
        THEN SetField(IF t \in DOMAIN data THEN data[t] ELSE MergeNewRecord, h)
        ELSE data[t]]

\* The "change" handler starts: it has read and parsed its own file and calls
\* safeReadFile(tickerFilePath).
MgChange(h) ==
    /\ mgPc[h] = "idle"
    /\ mgPc' = [mgPc EXCEPT ![h] = "rlock"]
    /\ UNCHANGED <<mgFile, mgLock, mgInput, mgTickersData, mgCurrentData,
                   lockVars, thVars, ingVars, agVars, poolVars, watchVars, wipeVars, sfVars, finVars, ptVars, adVars, clkVars, rtVars, dpVars, fbVars, sdVars, snVars, wfVars, bpVars>>

\* acquireLock of safeReadFile or safeWriteFile: the lock is free and taken
\* (a handler finding it held sleeps and looks again).
MgAcquire(h) ==
    /\ mgPc[h] \in {"rlock", "wlock"}
    /\ mgLock = "none"
    /\ mgLock' = h
    /\ mgPc' = [mgPc EXCEPT ![h] = IF mgPc[h] = "rlock" THEN "read" ELSE "wread"]
    /\ UNCHANGED <<mgFile, mgInput, mgTickersData, mgCurrentData,
                   lockVars, thVars, ingVars, agVars, poolVars, watchVars, wipeVars, sfVars, finVars, ptVars, adVars, clkVars, rtVars, dpVars, fbVars, sdVars, snVars, wfVars, bpVars>>

\* safeReadFile returns the document and releases the lock; the handler
\* merges its data into tickersData and calls safeWriteFile.
MgReadDone(h) ==
    /\ mgPc[h] = "read"
    /\ mgLock' = "none"
    /\ mgTickersData' = [mgTickersData EXCEPT ![h] = MergeInto(mgFile, mgInput[h], h)]
    /\ mgPc' = [mgPc EXCEPT ![h] = IF mgInput[h] # {} THEN "wlock" ELSE "done"]
    /\ UNCHANGED <<mgFile, mgInput, mgCurrentData,
                   lockVars, thVars, ingVars, agVars, poolVars, watchVars, wipeVars, sfVars, finVars, ptVars, adVars, clkVars, rtVars, dpVars, fbVars, sdVars, snVars, wfVars, bpVars>>

\* safeWriteFile reads currentData under the lock.
MgWriteRead(h) ==
    /\ mgPc[h] = "wread"
    /\ mgCurrentData' = [mgCurrentData EXCEPT ![h] = mgFile]
    /\ mgPc' = [mgPc EXCEPT ![h] = "write"]
    /\ UNCHANGED <<mgFile, mgLock, mgInput, mgTickersData,
                   lockVars, thVars, ingVars, agVars, poolVars, watchVars, wipeVars, sfVars, finVars, ptVars, adVars, clkVars, rtVars, dpVars, fbVars, sdVars, snVars, wfVars, bpVars>>

\* safeWriteFile writes { ...currentData, ...tickersData } and releases the lock.
MgWriteDone(h) ==
    /\ mgPc[h] = "write"
    /\ mgFile' = ShallowMerge(mgCurrentData[h], mgTickersData[h])
    /\ mgLock' = "none"
    /\ mgPc' = [mgPc EXCEPT ![h] = "done"]
    /\ UNCHANGED <<mgInput, mgTickersData, mgCurrentData,
                   lockVars, thVars, ingVars, agVars, poolVars, watchVars, wipeVars, sfVars, finVars, ptVars, adVars, clkVars, rtVars, dpVars, fbVars, sdVars, snVars, wfVars, bpVars>>

MergeIdle ==
    /\ mgFile = EmptyDoc
    /\ mgLock = "none"
    /\ mgPc = [h \in Handlers |-> "off"]
    /\ mgInput = [h \in Handlers |-> {}]
    /\ mgTickersData = [h \in Handlers |-> EmptyDoc]
    /\ mgCurrentData = [h \in Handlers |-> EmptyDoc]

\* shorts.json and filings.json have both changed; each has data for some
\* tickers.
MergeInit ==
    /\ mgFile \in MergeDocs
    /\ mgLock = "none"
    /\ mgPc = [h \in Handlers |-> "idle"]
    /\ mgInput \in [Handlers -> SUBSET Tickers]
    /\ mgTickersData = [h \in Handlers |-> EmptyDoc]
    /\ mgCurrentData = [h \in Handlers |-> EmptyDoc]

MergeNext ==
    \E h \in Handlers :
        \/ MgChange(h)
        \/ MgAcquire(h)
        \/ MgReadDone(h)
        \/ MgWriteRead(h)
        \/ MgWriteDone(h)

(***************************************************************************)
(* Failed fetches and the retry pool: filings_scraper.js (scrapeS3Filings, *)
(* processNewTickers, main) and short_scraper.js (processNewTickers,       *)
(* processRetryPool, main)                                                 *)
(***************************************************************************)
RetryAgents == {"filings", "shorts"}

\* A fetch gives data, gives nothing, or fails.
FetchOutcomes == {"data", "none", "error"}

\* The elements of a sequence.
Range(q) == {q[i] : i \in 1..Len(q)}

\* main: the tickers of tickers.json not yet processed go to
\* processNewTickers.
RtMain ==
    /\ rtPc = "idle"
    /\ rtMains < MaxMains
    /\ rtMains' = rtMains + 1
    /\ rtNewTickers' = FilterNot(KeysInOrder(rtTickersJson), rtProcessed)
    /\ rtIndex' = 1
    /\ rtPc' = IF rtNewTickers' = <<>> THEN "idle" ELSE "loop"
    /\ UNCHANGED <<rtAgent, rtTickersJson, rtRetryPool, rtProcessed, rtFailed, rtRetried,
                   lockVars, thVars, ingVars, agVars, poolVars, watchVars, wipeVars, sfVars, finVars, ptVars, adVars, clkVars, mgVars, dpVars, fbVars, sdVars, snVars, wfVars, bpVars>>

\* processNewTickers: the next ticker is skipped if processed, else its
\* fetch is started.
RtFetch ==
    /\ rtPc = "loop"
    /\ rtIndex <= Len(rtNewTickers)
    /\ IF rtNewTickers[rtIndex] \in rtProcessed
       THEN /\ rtIndex' = rtIndex + 1
            /\ UNCHANGED rtPc
       ELSE /\ rtPc' = "fetch"
            /\ UNCHANGED rtIndex
    /\ UNCHANGED <<rtAgent, rtTickersJson, rtNewTickers, rtRetryPool, rtProcessed, rtMains,
                   rtFailed, rtRetried,
                   lockVars, thVars, ingVars, agVars, poolVars, watchVars, wipeVars, sfVars, finVars, ptVars, adVars, clkVars, mgVars, dpVars, fbVars, sdVars, snVars, wfVars, bpVars>>

\* The fetch has returned.
\*   filings_scraper.js: scrapeS3Filings pushes the ticker to retryPool in
\*     its catch and returns null; processNewTickers marks the ticker
\*     processed whatever was returned.
\*   short_scraper.js: fetchStockData returns null on failure;
\*     processNewTickers marks the ticker processed only with data and
\*     pushes nothing to retryPool.
RtFetched(r) ==
    /\ rtPc = "fetch"
    /\ LET ticker == rtNewTickers[rtIndex] IN
       /\ rtRetryPool' = IF rtAgent = "filings" /\ r = "error"
                         THEN Append(rtRetryPool, ticker) ELSE rtRetryPool
       /\ rtProcessed' = IF rtAgent = "filings" \/ r = "data"
                         THEN rtProcessed \cup {ticker} ELSE rtProcessed
       /\ rtFailed' = IF r = "error" THEN rtFailed \cup {ticker} ELSE rtFailed \ {ticker}
    /\ rtIndex' = rtIndex + 1
    /\ rtPc' = "loop"
    /\ UNCHANGED <<rtAgent, rtTickersJson, rtNewTickers, rtMains, rtRetried,
                   lockVars, thVars, ingVars, agVars, poolVars, watchVars, wipeVars, sfVars, finVars, ptVars, adVars, clkVars, mgVars, dpVars, fbVars, sdVars, snVars, wfVars, bpVars>>

\* processNewTickers returns. filings_scraper.js: main returns.
\* short_scraper.js: main awaits processRetryPool, which fetches every
\* ticker of retryPool again and removes those that gave data.
RtEnd(results) ==
    /\ rtPc = "loop"
    /\ rtIndex > Len(rtNewTickers)
    /\ rtPc' = "idle"
    /\ IF rtAgent = "shorts"
       THEN /\ rtRetried' = rtRetried \cup Range(rtRetryPool)
            /\ rtRetryPool' = SelectSeq(rtRetryPool, LAMBDA t : results[t] # "data")
            /\ rtFailed' = (rtFailed \ {t \in Range(rtRetryPool) : results[t] # "error"})
                             \cup {t \in Range(rtRetryPool) : results[t] = "error"}
       ELSE UNCHANGED <<rtRetried, rtRetryPool, rtFailed>>
    /\ UNCHANGED <<rtAgent, rtTickersJson, rtNewTickers, rtIndex, rtProcessed, rtMains,
                   lockVars, thVars, ingVars, agVars, poolVars, watchVars, wipeVars, sfVars, finVars, ptVars, adVars, clkVars, mgVars, dpVars, fbVars, sdVars, snVars, wfVars, bpVars>>

RetryIdle ==
    /\ rtAgent = "none"
    /\ rtPc = "off"
    /\ rtTickersJson = {}
    /\ rtNewTickers = <<>>
    /\ rtIndex = 0
    /\ rtRetryPool = <<>>
    /\ rtProcessed = {}
    /\ rtMains = 0
    /\ rtFailed = {}
    /\ rtRetried = {}

\* The agent has just been started.
RetryInit ==
    /\ rtAgent \in RetryAgents
    /\ rtPc = "idle"
    /\ rtTickersJson \in SUBSET Tickers
    /\ rtNewTickers = <<>>
    /\ rtIndex = 0
    /\ rtRetryPool = <<>>
    /\ rtProcessed = {}
    /\ rtMains = 0
    /\ rtFailed = {}
    /\ rtRetried = {}

RetryNext ==
    \/ RtMain
    \/ RtFetch
    \/ \E r \in FetchOutcomes : RtFetched(r)
    \/ \E results \in [Tickers -> FetchOutcomes] : RtEnd(results)

(***************************************************************************)
(* The display agent's run and the reset check (ticker.js,                 *)
(* short_scraper.js: init)                                                 *)
(***************************************************************************)
DisplayVariants == {"ticker.js", "short_scraper.js"}

\* init: await checkAndWipeIfNeeded(), the only call of the check; then the
\* table is shown and the listeners and the clear schedule are started.
DpInit ==
    /\ dpPc = "init"
    /\ dpPc' = "running"
    /\ LET currentDateAtMidnight == setToMidnight(wipeNow) IN
       IF WipeNeeded(lastWipeFile, currentDateAtMidnight)
       THEN /\ stores' = IF wipeVariant = "ticker.js"
                         THEN [stores EXCEPT !["tickers.json"] = EmptyDoc]
                         ELSE [p \in StoreNames |-> ShallowMerge(stores[p], EmptyDoc)]
            /\ lastWipeFile' = toISOString(currentDateAtMidnight)
            /\ wipeCount' = wipeCount + 1
       ELSE UNCHANGED <<stores, lastWipeFile, wipeCount>>
    /\ UNCHANGED <<wipeVariant, wipeNow, tzOffset,
                   lockVars, thVars, ingVars, agVars, poolVars, watchVars, sfVars, finVars, ptVars, adVars, clkVars, mgVars, rtVars, fbVars, sdVars, snVars, wfVars, bpVars>>

DisplayIdle == dpPc = "off"

\* The display agent is started.
DisplayInit ==
    /\ dpPc = "init"
    /\ wipeVariant \in DisplayVariants
    /\ wipeNow = StartHour
    /\ tzOffset \in TzOffsets
    /\ lastWipeFile \in {MissingFile} \cup
          {toISOString(setToMidnight(StartHour - back * HoursPerDay)) : back \in 0..MaxDaysBack}
    /\ stores \in [StoreNames -> {EmptyDoc, SomeDoc}]
    /\ wipeCount = 0

\* The agent runs; time passes and the agents write to the stores.
DisplayNext ==
    \/ DpInit
    \/ \E p \in StoreNames : StoreWritten(p)
    \/ HoursPass

(***************************************************************************)
(* The filings agent watching the file it writes (filings_scraper.js:      *)
(* updateTickerInFile, processNewTickers, main, watchFile)                 *)
(***************************************************************************)
\* The main() started at the end of the script and the main() the watcher
\* starts; the two can run at the same time.
FbPasses == {"startup", "watch"}

\* A marking that marks nothing.
KeepSet(set, ticker) == set

\* processedTickers.add(ticker)
MarkProcessed(set, ticker) == set \cup {ticker}

\* readProcessedTickers: the tickers of the processed file, or the empty set
\* when last-wipe.txt cannot be read.
FbReadProcessed == IF fbLastWipe THEN fbFile ELSE {}

\* main is entered: tickers.json and the processed file are read and
\* filtered; with nothing new main returns.
FbMain(s) ==
    /\ fbPc[s] = "start"
    /\ LET filtered == FilterNot(KeysInOrder(fbTickersJson), FbReadProcessed) IN
       /\ fbNewTickers' = [fbNewTickers EXCEPT ![s] = filtered]
       /\ fbIndex' = [fbIndex EXCEPT ![s] = 1]
       /\ fbPc' = [fbPc EXCEPT ![s] = IF filtered = <<>> THEN "idle" ELSE "loop"]
       /\ fbProcessing' = IF filtered = <<>> /\ s = "watch" THEN FALSE ELSE fbProcessing
    /\ UNCHANGED <<fbTickersJson, fbLastWipe, fbFile, fbMemory, fbTimer, fbSelfPass, fbWrote,
                   lockVars, thVars, ingVars, agVars, poolVars, watchVars, wipeVars, sfVars, finVars, ptVars, adVars, clkVars, mgVars, rtVars, dpVars, sdVars, snVars, wfVars, bpVars>>

\* processNewTickers: the next ticker is skipped if processed, else
\* scrapeS3Filings is awaited.
FbStep(s) ==
    /\ fbPc[s] = "loop"
    /\ fbIndex[s] <= Len(fbNewTickers[s])
    /\ IF fbNewTickers[s][fbIndex[s]] \in fbMemory
       THEN /\ fbIndex' = [fbIndex EXCEPT ![s] = @ + 1]
            /\ UNCHANGED fbPc
       ELSE /\ fbPc' = [fbPc EXCEPT ![s] = "fetch"]
            /\ UNCHANGED fbIndex
    /\ UNCHANGED <<fbTickersJson, fbLastWipe, fbFile, fbMemory, fbNewTickers, fbProcessing,
                   fbTimer, fbSelfPass, fbWrote,
                   lockVars, thVars, ingVars, agVars, poolVars, watchVars, wipeVars, sfVars, finVars, ptVars, adVars, clkVars, mgVars, rtVars, dpVars, sdVars, snVars, wfVars, bpVars>>

\* scrapeS3Filings has returned: the ticker is marked processed and
\* writeProcessedTickers writes the set; it throws when last-wipe.txt cannot
\* be read, which ends main (the watcher's processing flag stays set). With
\* filings updateTickerInFile writes tickers.json, and the watcher's change
\* event replaces the pending timer.
FbFetched(s, r) ==
    /\ fbPc[s] = "fetch"
    /\ fbMemory' = MarkProcessed(fbMemory, fbNewTickers[s][fbIndex[s]])
    /\ IF fbLastWipe
       THEN /\ fbFile' = fbMemory'
            /\ fbIndex' = [fbIndex EXCEPT ![s] = @ + 1]
            /\ fbPc' = [fbPc EXCEPT ![s] = "loop"]
            /\ fbTimer' = (fbTimer \/ r = "data")
            /\ fbWrote' = (fbWrote \/ r = "data")
       ELSE /\ fbPc' = [fbPc EXCEPT ![s] = "idle"]
            /\ UNCHANGED <<fbFile, fbIndex, fbTimer, fbWrote>>
    /\ UNCHANGED <<fbTickersJson, fbLastWipe, fbNewTickers, fbProcessing, fbSelfPass,
                   lockVars, thVars, ingVars, agVars, poolVars, watchVars, wipeVars, sfVars, finVars, ptVars, adVars, clkVars, mgVars, rtVars, dpVars, sdVars, snVars, wfVars, bpVars>>

\* The for loop is over: main returns; the watcher clears its flag.
FbEnd(s) ==
    /\ fbPc[s] = "loop"
    /\ fbIndex[s] > Len(fbNewTickers[s])
    /\ fbPc' = [fbPc EXCEPT ![s] = "idle"]
    /\ fbProcessing' = IF s = "watch" THEN FALSE ELSE fbProcessing
    /\ UNCHANGED <<fbTickersJson, fbLastWipe, fbFile, fbMemory, fbNewTickers, fbIndex,
                   fbTimer, fbSelfPass, fbWrote,
                   lockVars, thVars, ingVars, agVars, poolVars, watchVars, wipeVars, sfVars, finVars, ptVars, adVars, clkVars, mgVars, rtVars, dpVars, sdVars, snVars, wfVars, bpVars>>

\* The watcher's timer fires: if (!processing) { processing = true; await main(); ... }
FbTimerFire ==
    /\ fbTimer
    /\ fbTimer' = FALSE
    /\ IF fbProcessing
       THEN UNCHANGED <<fbPc, fbProcessing, fbSelfPass>>
       ELSE /\ fbProcessing' = TRUE
            /\ fbPc' = [fbPc EXCEPT !["watch"] = "start"]
            /\ fbSelfPass' = TRUE
    /\ UNCHANGED <<fbTickersJson, fbLastWipe, fbFile, fbMemory, fbNewTickers, fbIndex, fbWrote,
                   lockVars, thVars, ingVars, agVars, poolVars, watchVars, wipeVars, sfVars, finVars, ptVars, adVars, clkVars, mgVars, rtVars, dpVars, sdVars, snVars, wfVars, bpVars>>

FeedbackIdle ==
    /\ fbPc = [s \in FbPasses |-> "off"]
    /\ fbTickersJson = {}
    /\ fbLastWipe = FALSE
    /\ fbFile = {}
    /\ fbMemory = {}
    /\ fbNewTickers = [s \in FbPasses |-> <<>>]
    /\ fbIndex = [s \in FbPasses |-> 0]
    /\ fbProcessing = FALSE
    /\ fbTimer = FALSE
    /\ fbSelfPass = FALSE
    /\ fbWrote = FALSE

\* The script has just been started: main().catch(...); watchFile();
FeedbackInit ==
    /\ fbPc = [s \in FbPasses |-> IF s = "startup" THEN "start" ELSE "idle"]
    /\ fbTickersJson \in SUBSET Tickers
    /\ fbLastWipe \in BOOLEAN
    /\ fbFile \in SUBSET Tickers
    /\ fbMemory = {}
    /\ fbNewTickers = [s \in FbPasses |-> <<>>]
    /\ fbIndex = [s \in FbPasses |-> 0]
    /\ fbProcessing = FALSE
    /\ fbTimer = FALSE
    /\ fbSelfPass = FALSE
    /\ fbWrote = FALSE

FeedbackNext ==
    \/ \E s \in FbPasses : FbMain(s)
    \/ \E s \in FbPasses : FbStep(s)
    \/ \E s \in FbPasses, r \in FetchOutcomes : FbFetched(s, r)
    \/ \E s \in FbPasses : FbEnd(s)
    \/ FbTimerFire

(***************************************************************************)
(* The alert sounds: playWav of the news agent (check-for-news.js) and     *)
(* playAlertSound of the headline monitor (part_004). Time is in ms.       *)
(***************************************************************************)
\* const DEBOUNCE_INTERVAL = 10000 and const SOUND_COOLDOWN_MS = 60 * 1000
DEBOUNCE_INTERVAL == 10000
SOUND_COOLDOWN_MS == 60000

\* Date.now() at the start, the step of the clock and its last value.
SoundClockStart == 100000
SoundTick == 5000
SoundClockEnd == 170000

SoundAgents == {"news", "headline"}

\* The passes that can overlap: the one of the timer and the one of the
\* file watcher.
SoundPasses == {"interval", "watch"}

IntervalOf(agent) == IF agent = "news" THEN DEBOUNCE_INTERVAL ELSE SOUND_COOLDOWN_MS

\* The start times of the last two sounds.
LastTwo(q) == IF Len(q) > 2 THEN Tail(q) ELSE q

\* A pass has found new items and calls the sound function; the player
\* starts the sound or fails.
\*   playWav: if (now - lastPlayedTime < DEBOUNCE_INTERVAL) return;
\*            lastPlayedTime = now; player.play(...) (not awaited)
\*   playAlertSound: if (now - lastAlertTime >= SOUND_COOLDOWN_MS)
\*            await wavPlayer.play(...), and only then lastAlertTime = now
SdCall(p, fails) ==
    /\ sdPc[p] = "idle"
    /\ IF sdAgent = "news"
       THEN /\ IF sdNow - sdLast < DEBOUNCE_INTERVAL
               THEN UNCHANGED <<sdLast, sdStarts>>
               ELSE /\ sdLast' = sdNow
                    /\ sdStarts' = IF fails THEN sdStarts ELSE LastTwo(Append(sdStarts, sdNow))
            /\ UNCHANGED <<sdPc, sdCaptured>>
       ELSE /\ IF sdNow - sdLast >= SOUND_COOLDOWN_MS
               THEN /\ sdPc' = [sdPc EXCEPT ![p] = IF fails THEN "failing" ELSE "playing"]
                    /\ sdCaptured' = [sdCaptured EXCEPT ![p] = sdNow]
                    /\ sdStarts' = IF fails THEN sdStarts ELSE LastTwo(Append(sdStarts, sdNow))
               ELSE UNCHANGED <<sdPc, sdCaptured, sdStarts>>
            /\ UNCHANGED sdLast
    /\ UNCHANGED <<sdAgent, sdNow,
                   lockVars, thVars, ingVars, agVars, poolVars, watchVars, wipeVars, sfVars, finVars, ptVars, adVars, clkVars, mgVars, rtVars, dpVars, fbVars, snVars, wfVars, bpVars>>

\* playAlertSound: the awaited play has settled; when it resolved,
\* lastAlertTime = now (the now taken before the await).
SdSettled(p) ==
    /\ sdPc[p] \in {"playing", "failing"}
    /\ sdLast' = IF sdPc[p] = "playing" THEN sdCaptured[p] ELSE sdLast
    /\ sdPc' = [sdPc EXCEPT ![p] = "idle"]
    /\ sdCaptured' = [sdCaptured EXCEPT ![p] = 0]
    /\ UNCHANGED <<sdAgent, sdNow, sdStarts,
                   lockVars, thVars, ingVars, agVars, poolVars, watchVars, wipeVars, sfVars, finVars, ptVars, adVars, clkVars, mgVars, rtVars, dpVars, fbVars, snVars, wfVars, bpVars>>

\* Time passes.
SdTick ==
    /\ sdAgent \in SoundAgents
    /\ sdNow + SoundTick <= SoundClockEnd
    /\ sdNow' = sdNow + SoundTick
    /\ UNCHANGED <<sdAgent, sdLast, sdPc, sdCaptured, sdStarts,
                   lockVars, thVars, ingVars, agVars, poolVars, watchVars, wipeVars, sfVars, finVars, ptVars, adVars, clkVars, mgVars, rtVars, dpVars, fbVars, snVars, wfVars, bpVars>>

SoundIdle ==
    /\ sdAgent = "none"
    /\ sdNow = 0
    /\ sdLast = 0
    /\ sdPc = [p \in SoundPasses |-> "off"]
    /\ sdCaptured = [p \in SoundPasses |-> 0]
    /\ sdStarts = <<>>

\* let lastPlayedTime = 0 / let lastAlertTime = 0
SoundInit ==
    /\ sdAgent \in SoundAgents
    /\ sdNow = SoundClockStart
    /\ sdLast = 0
    /\ sdPc = [p \in SoundPasses |-> "idle"]
    /\ sdCaptured = [p \in SoundPasses |-> 0]
    /\ sdStarts = <<>>

SoundNext ==
    \/ \E p \in SoundPasses, fails \in BOOLEAN : SdCall(p, fails)
    \/ \E p \in SoundPasses : SdSettled(p)
    \/ SdTick

(***************************************************************************)
(* The keys created in tickers.json: sanitizeTicker and the add and load   *)
(* commands (ticker.js), filterData and saveToJson of the scanner          *)
(* (momo-scraper.js). A string is a sequence of characters.                *)
(***************************************************************************)
\* Longest input string tried.
MaxInputLen == 3

\* An uppercase letter, a lowercase letter, a character that is no letter,
\* and the space.
Chars == {"A", "b", "7", " "}
UpperLetters == {"A", "B"}
Letters == {"A", "B", "a", "b"}

InputStrings == UNION {[1..n -> Chars] : n \in 0..MaxInputLen}

KeySources == {"add", "load", "scanner"}

toUpperCase(s) == [i \in 1..Len(s) |-> IF s[i] = "a" THEN "A" ELSE IF s[i] = "b" THEN "B" ELSE s[i]]
toLowerCase(s) == [i \in 1..Len(s) |-> IF s[i] = "A" THEN "a" ELSE IF s[i] = "B" THEN "b" ELSE s[i]]

RECURSIVE TrimStart(_)
TrimStart(s) == IF s # <<>> /\ Head(s) = " " THEN TrimStart(Tail(s)) ELSE s

RECURSIVE TrimEnd(_)
TrimEnd(s) == IF s # <<>> /\ s[Len(s)] = " " THEN TrimEnd(SubSeq(s, 1, Len(s) - 1)) ELSE s

\* String.prototype.trim
Trim(s) == TrimEnd(TrimStart(s))

\* replace(/[^A-Z]/g, "")
KeepUpper(s) == SelectSeq(s, LAMBDA c : c \in UpperLetters)

\* sanitizeTicker: "" when the trimmed input is shorter than 2 characters,
\* else the uppercased input without everything that is not A-Z.
sanitizeTicker(ticker) ==
    IF Len(Trim(ticker)) < 2 THEN <<>>
    ELSE KeepUpper(toUpperCase(Trim(ticker)))

RECURSIVE FirstToken(_)
\* command.split(" ")[1] of "add <rest>": the rest up to its first space.
FirstToken(s) ==
    IF s = <<>> \/ Head(s) = " " THEN <<>> ELSE <<Head(s)>> \o FirstToken(Tail(s))

\* /^[A-Za-z]{1,5}(\s*\(HOD\))?$/ on the symbol without its (HOD) suffix
SymbolPattern(s) == Len(s) >= 1 /\ Len(s) <= 5 /\ \A i \in 1..Len(s) : s[i] \in Letters

\* startListening, "add": the line is trimmed and lowercased, the argument
\* sanitized, and appendTicker creates the key when the result is not "".
SnAdd ==
    /\ snSource = "add"
    /\ snPc = "input"
    /\ snPc' = "done"
    /\ LET ticker == sanitizeTicker(FirstToken(toLowerCase(TrimEnd(snInput)))) IN
       snKeys' = IF ticker # <<>> THEN snKeys \cup {ticker} ELSE snKeys
    /\ UNCHANGED <<snSource, snInput, snHod,
                   lockVars, thVars, ingVars, agVars, poolVars, watchVars, wipeVars, sfVars, finVars, ptVars, adVars, clkVars, mgVars, rtVars, dpVars, fbVars, sdVars, wfVars, bpVars>>

\* readTickersFromFile (load): each line of the file is sanitized and the
\* results that are not "" are appended.
SnLoad ==
    /\ snSource = "load"
    /\ snPc = "input"
    /\ snPc' = "done"
    /\ LET ticker == sanitizeTicker(snInput) IN
       snKeys' = IF ticker # <<>> THEN snKeys \cup {ticker} ELSE snKeys
    /\ UNCHANGED <<snSource, snInput, snHod,
                   lockVars, thVars, ingVars, agVars, poolVars, watchVars, wipeVars, sfVars, finVars, ptVars, adVars, clkVars, mgVars, rtVars, dpVars, fbVars, sdVars, wfVars, bpVars>>

\* The scanner: filterData keeps a row whose Symbol matches the pattern and
\* saveToJson uses the symbol, without its (HOD) suffix, as the key.
SnScan ==
    /\ snSource = "scanner"
    /\ snPc = "input"
    /\ snPc' = "done"
    /\ snKeys' = IF SymbolPattern(snInput) THEN snKeys \cup {snInput} ELSE snKeys
    /\ UNCHANGED <<snSource, snInput, snHod,
                   lockVars, thVars, ingVars, agVars, poolVars, watchVars, wipeVars, sfVars, finVars, ptVars, adVars, clkVars, mgVars, rtVars, dpVars, fbVars, sdVars, wfVars, bpVars>>

SanitizeIdle ==
    /\ snSource = "none"
    /\ snPc = "off"
    /\ snInput = <<>>
    /\ snHod = FALSE
    /\ snKeys = {}

\* tickers.json is empty and one input arrives.
SanitizeInit ==
    /\ snSource \in KeySources
    /\ snPc = "input"
    /\ snInput \in InputStrings
    /\ snHod \in BOOLEAN
    /\ snKeys = {}

SanitizeNext ==
    \/ SnAdd
    \/ SnLoad
    \/ SnScan

(***************************************************************************)
(* The reset check when fs.writeFile fails (wipeUtil.js, ticker.js)         *)
(***************************************************************************)
\* jsonFilePaths, in the order of the for loop
JsonFilePaths == <<"tickers.json", "filings.json", "shorts.json">>

\* The error codes a failing fs.writeFile is modelled with.
WriteErrors == {"ENOENT", "EACCES"}

\* wipeUtil.js checkAndResetJsonFiles with a catch per file: a failed write
\* is skipped and the date is written all the same.
CheckAndResetJsonFilesSkipping(k) ==
    /\ wipeVariant = "wipeUtil.js"
    /\ k \in 1..Len(JsonFilePaths)
    /\ WipeNeeded(lastWipeFile, setToMidnight(wipeNow))
    /\ stores' = [p \in StoreNames |-> IF p = JsonFilePaths[k] THEN stores[p] ELSE EmptyDoc]
    /\ lastWipeFile' = toISOString(setToMidnight(wipeNow))
    /\ wfFailedAt' = wipeCount
    /\ UNCHANGED <<wipeVariant, wipeNow, tzOffset, wipeCount,
                   lockVars, thVars, ingVars, agVars, poolVars, watchVars, sfVars, finVars, ptVars, adVars, clkVars, mgVars, rtVars, dpVars, fbVars, sdVars, snVars, bpVars>>

\* wipeUtil.js checkAndResetJsonFiles: the k-th fs.writeFile of the loop
\* throws; the files before it have been reset, the loop and the write of the
\* date are left, the catch rethrows.
CheckAndResetJsonFilesFailing(k) ==
    /\ wipeVariant = "wipeUtil.js"
    /\ k \in 1..Len(JsonFilePaths)
    /\ WipeNeeded(lastWipeFile, setToMidnight(wipeNow))
    /\ stores' = [p \in StoreNames |->
                     IF \E i \in 1..(k - 1) : JsonFilePaths[i] = p THEN EmptyDoc ELSE stores[p]]
    /\ wfFailedAt' = wipeCount
    /\ UNCHANGED <<wipeVariant, wipeNow, tzOffset, lastWipeFile, wipeCount,
                   lockVars, thVars, ingVars, agVars, poolVars, watchVars, sfVars, finVars, ptVars, adVars, clkVars, mgVars, rtVars, dpVars, fbVars, sdVars, snVars, bpVars>>

\* ticker.js checkAndWipeIfNeeded: the fs.writeFile of tickers.json throws
\* err. The catch takes ENOENT for a missing last-wipe file and writes
\* tickers.json again, then the date (retryOk), or throws on; any other
\* error is logged.
CheckAndWipeIfNeededFailing(err, retryOk) ==
    /\ wipeVariant = "ticker.js"
    /\ WipeNeeded(lastWipeFile, setToMidnight(wipeNow))
    /\ IF err = "ENOENT" /\ retryOk
       THEN /\ stores' = [stores EXCEPT !["tickers.json"] = EmptyDoc]
            /\ lastWipeFile' = toISOString(setToMidnight(wipeNow))
            /\ wipeCount' = wipeCount + 1
            /\ UNCHANGED wfFailedAt
       ELSE /\ wfFailedAt' = wipeCount
            /\ UNCHANGED <<stores, lastWipeFile, wipeCount>>
    /\ UNCHANGED <<wipeVariant, wipeNow, tzOffset,
                   lockVars, thVars, ingVars, agVars, poolVars, watchVars, sfVars, finVars, ptVars, adVars, clkVars, mgVars, rtVars, dpVars, fbVars, sdVars, snVars, bpVars>>

WipeFailIdle == wfFailedAt = -1

WipeFailInit == WipeInit /\ wfFailedAt = -1

WipeFailNext ==
    \/ WipeNext
    \/ \E k \in 1..Len(JsonFilePaths) : CheckAndResetJsonFilesFailing(k)
    \/ \E err \in WriteErrors, retryOk \in BOOLEAN : CheckAndWipeIfNeededFailing(err, retryOk)

(***************************************************************************)
(* The news agent's pool loop and its refreshes (part_003)                 *)
(***************************************************************************)
\* The tickers tickers.json may hold, in the order of Object.keys, the size
\* of a batch (10 in the source) and how often tickers.json is changed.
PoolTickers == <<"T1", "T2", "T3">>
batchSize == 2
MaxChanges == 2

PoolVariants == {"batch", "single"}

\* Object.keys(tickers)
ObjectKeys(keys) == SelectSeq(PoolTickers, LAMBDA t : t \in keys)

\* tickerPool.splice(0, batchSize), or tickerPool.shift()
TakeSize == IF bpVariant = "batch" THEN batchSize ELSE 1

\* initializeTickerPool, and the refresh of the loop: tickerPool is assigned
\* the keys unless there are none
Refreshed(pool, keys) == IF keys = {} THEN pool ELSE ObjectKeys(keys)

\* processTickerPool finds the pool empty: it reads tickers.json, assigns the
\* keys if there are any, and sleeps a second.
BpRefresh ==
    /\ bpPc = "loop"
    /\ bpPool = <<>>
    /\ bpPool' = Refreshed(bpPool, bpFile)
    /\ bpPc' = "sleeping"
    /\ UNCHANGED <<bpVariant, bpFile, bpBatch, bpHandlers, bpChanges,
                   lockVars, thVars, ingVars, agVars, poolVars, watchVars, wipeVars, sfVars, finVars, ptVars, adVars, clkVars, mgVars, rtVars, dpVars, fbVars, sdVars, snVars, wfVars>>

\* processTickerPool takes a batch from the front of the pool and awaits its
\* fetch.
BpTake ==
    /\ bpPc = "loop"
    /\ bpPool # <<>>
    /\ LET n == IF Len(bpPool) < TakeSize THEN Len(bpPool) ELSE TakeSize IN
       /\ bpBatch' = SubSeq(bpPool, 1, n)
       /\ bpPool' = SubSeq(bpPool, n + 1, Len(bpPool))
    /\ bpPc' = "fetching"
    /\ UNCHANGED <<bpVariant, bpFile, bpHandlers, bpChanges,
                   lockVars, thVars, ingVars, agVars, poolVars, watchVars, wipeVars, sfVars, finVars, ptVars, adVars, clkVars, mgVars, rtVars, dpVars, fbVars, sdVars, snVars, wfVars>>

\* The fetch of the batch has returned: tickerPool.push(...batch) appends the
\* batch to the array tickerPool refers to now; the loop sleeps.
BpPushBack ==
    /\ bpPc = "fetching"
    /\ bpPool' = bpPool \o bpBatch
    /\ bpBatch' = <<>>
    /\ bpPc' = "sleeping"
    /\ UNCHANGED <<bpVariant, bpFile, bpHandlers, bpChanges,
                   lockVars, thVars, ingVars, agVars, poolVars, watchVars, wipeVars, sfVars, finVars, ptVars, adVars, clkVars, mgVars, rtVars, dpVars, fbVars, sdVars, snVars, wfVars>>

\* The sleep of the loop ends.
BpWake ==
    /\ bpPc = "sleeping"
    /\ bpPc' = "loop"
    /\ UNCHANGED <<bpVariant, bpFile, bpPool, bpBatch, bpHandlers, bpChanges,
                   lockVars, thVars, ingVars, agVars, poolVars, watchVars, wipeVars, sfVars, finVars, ptVars, adVars, clkVars, mgVars, rtVars, dpVars, fbVars, sdVars, snVars, wfVars>>

\* tickers.json is changed to the keys d (d = {}: the daily wipe); the
\* watcher's "change" handler calls initializeTickerPool, which awaits
\* safeReadFile.
BpOnChange(d) ==
    /\ bpPc # "off"
    /\ bpChanges < MaxChanges
    /\ d # bpFile
    /\ bpFile' = d
    /\ bpHandlers' = bpHandlers + 1
    /\ bpChanges' = bpChanges + 1
    /\ UNCHANGED <<bpVariant, bpPool, bpBatch, bpPc,
                   lockVars, thVars, ingVars, agVars, poolVars, watchVars, wipeVars, sfVars, finVars, ptVars, adVars, clkVars, mgVars, rtVars, dpVars, fbVars, sdVars, snVars, wfVars>>

\* A handler's safeReadFile returns the present document and
\* initializeTickerPool assigns tickerPool.
BpHandlerDone ==
    /\ bpHandlers > 0
    /\ bpPool' = Refreshed(bpPool, bpFile)
    /\ bpHandlers' = bpHandlers - 1
    /\ UNCHANGED <<bpVariant, bpFile, bpBatch, bpPc, bpChanges,
                   lockVars, thVars, ingVars, agVars, poolVars, watchVars, wipeVars, sfVars, finVars, ptVars, adVars, clkVars, mgVars, rtVars, dpVars, fbVars, sdVars, snVars, wfVars>>

BatchIdle ==
    /\ bpVariant = "none"
    /\ bpFile = {}
    /\ bpPool = <<>>
    /\ bpBatch = <<>>
    /\ bpPc = "off"
    /\ bpHandlers = 0
    /\ bpChanges = 0

\* main has awaited initializeTickerPool, started the watcher and called
\* processTickerPool.
BatchInit ==
    /\ bpVariant \in PoolVariants
    /\ bpFile \in SUBSET Range(PoolTickers)
    /\ bpPool = ObjectKeys(bpFile)
    /\ bpBatch = <<>>
    /\ bpPc = "loop"
    /\ bpHandlers = 0
    /\ bpChanges = 0

BatchNext ==
    \/ BpRefresh
    \/ BpTake
    \/ BpPushBack
    \/ BpWake
    \/ \E d \in SUBSET Range(PoolTickers) : BpOnChange(d)
    \/ BpHandlerDone

(***************************************************************************)
(* The specifications                                                      *)
(***************************************************************************)
Init == LockInit /\ ThrottleIdle /\ IngestIdle /\ AgentsIdle /\ PoolIdle /\ WatchIdle /\ WipeIdle /\ ShortsFetchIdle /\ FinPassIdle /\ ProcessedIdle /\ AddIdle /\ ClearIdle /\ MergeIdle /\ RetryIdle /\ DisplayIdle /\ FeedbackIdle /\ SoundIdle /\ SanitizeIdle /\ WipeFailIdle /\ BatchIdle

Next == LockNext /\ UNCHANGED <<thVars, ingVars, agVars, poolVars, watchVars, wipeVars, sfVars, finVars, ptVars, adVars, clkVars, mgVars, rtVars, dpVars, fbVars, sdVars, snVars, wfVars, bpVars>>

Spec == Init /\ [][Next]_vars

InitThrottle == LockIdle /\ ThrottleInit /\ IngestIdle /\ AgentsIdle /\ PoolIdle /\ WatchIdle /\ WipeIdle /\ ShortsFetchIdle /\ FinPassIdle /\ ProcessedIdle /\ AddIdle /\ ClearIdle /\ MergeIdle /\ RetryIdle /\ DisplayIdle /\ FeedbackIdle /\ SoundIdle /\ SanitizeIdle /\ WipeFailIdle /\ BatchIdle

NextThrottle == ThrottleNext

SpecThrottle == InitThrottle /\ [][NextThrottle]_vars

InitIngest == LockIdle /\ ThrottleIdle /\ IngestInit /\ AgentsIdle /\ PoolIdle /\ WatchIdle /\ WipeIdle /\ ShortsFetchIdle /\ FinPassIdle /\ ProcessedIdle /\ AddIdle /\ ClearIdle /\ MergeIdle /\ RetryIdle /\ DisplayIdle /\ FeedbackIdle /\ SoundIdle /\ SanitizeIdle /\ WipeFailIdle /\ BatchIdle

NextIngest == IngestNext

SpecIngest == InitIngest /\ [][NextIngest]_vars

InitAgents == LockIdle /\ ThrottleIdle /\ IngestIdle /\ AgentsInit /\ PoolIdle /\ WatchIdle /\ WipeIdle /\ ShortsFetchIdle /\ FinPassIdle /\ ProcessedIdle /\ AddIdle /\ ClearIdle /\ MergeIdle /\ RetryIdle /\ DisplayIdle /\ FeedbackIdle /\ SoundIdle /\ SanitizeIdle /\ WipeFailIdle /\ BatchIdle

NextAgents == AgentsNext

SpecAgents == InitAgents /\ [][NextAgents]_vars

InitPool == PoolInit /\ ThrottleIdle /\ IngestIdle /\ AgentsIdle /\ WatchIdle /\ WipeIdle /\ ShortsFetchIdle /\ FinPassIdle /\ ProcessedIdle /\ AddIdle /\ ClearIdle /\ MergeIdle /\ RetryIdle /\ DisplayIdle /\ FeedbackIdle /\ SoundIdle /\ SanitizeIdle /\ WipeFailIdle /\ BatchIdle

NextPool == PoolNext

SpecPool == InitPool /\ [][NextPool]_vars

InitWatch == LockIdle /\ ThrottleIdle /\ IngestIdle /\ AgentsIdle /\ PoolIdle /\ WatchInit /\ WipeIdle /\ ShortsFetchIdle /\ FinPassIdle /\ ProcessedIdle /\ AddIdle /\ ClearIdle /\ MergeIdle /\ RetryIdle /\ DisplayIdle /\ FeedbackIdle /\ SoundIdle /\ SanitizeIdle /\ WipeFailIdle /\ BatchIdle

NextWatch == WatchNext

SpecWatch == InitWatch /\ [][NextWatch]_vars

InitWipe == LockIdle /\ ThrottleIdle /\ IngestIdle /\ AgentsIdle /\ PoolIdle /\ WatchIdle /\ WipeInit /\ ShortsFetchIdle /\ FinPassIdle /\ ProcessedIdle /\ AddIdle /\ ClearIdle /\ MergeIdle /\ RetryIdle /\ DisplayIdle /\ FeedbackIdle /\ SoundIdle /\ SanitizeIdle /\ WipeFailIdle /\ BatchIdle

NextWipe == WipeNext

SpecWipe == InitWipe /\ [][NextWipe]_vars

InitShortsFetch == LockIdle /\ ThrottleIdle /\ IngestIdle /\ AgentsIdle /\ PoolIdle /\ WatchIdle /\ WipeIdle /\ ShortsFetchInit /\ FinPassIdle /\ ProcessedIdle /\ AddIdle /\ ClearIdle /\ MergeIdle /\ RetryIdle /\ DisplayIdle /\ FeedbackIdle /\ SoundIdle /\ SanitizeIdle /\ WipeFailIdle /\ BatchIdle

NextShortsFetch == ShortsFetchNext

SpecShortsFetch == InitShortsFetch /\ [][NextShortsFetch]_vars

InitFinPass == LockIdle /\ ThrottleIdle /\ IngestIdle /\ AgentsIdle /\ PoolIdle /\ WatchIdle /\ WipeIdle /\ ShortsFetchIdle /\ FinPassInit /\ ProcessedIdle /\ AddIdle /\ ClearIdle /\ MergeIdle /\ RetryIdle /\ DisplayIdle /\ FeedbackIdle /\ SoundIdle /\ SanitizeIdle /\ WipeFailIdle /\ BatchIdle

NextFinPass == FinPassNext

\* Every await of the pass is eventually answered, so the pass keeps stepping.
SpecFinPass == InitFinPass /\ [][NextFinPass]_vars /\ WF_vars(NextFinPass)

InitProcessed == LockIdle /\ ThrottleIdle /\ IngestIdle /\ AgentsIdle /\ PoolIdle /\ WatchIdle /\ WipeIdle /\ ShortsFetchIdle /\ FinPassIdle /\ ProcessedInit /\ AddIdle /\ ClearIdle /\ MergeIdle /\ RetryIdle /\ DisplayIdle /\ FeedbackIdle /\ SoundIdle /\ SanitizeIdle /\ WipeFailIdle /\ BatchIdle

NextProcessed == ProcessedNext

SpecProcessed == InitProcessed /\ [][NextProcessed]_vars

InitAdd == LockIdle /\ ThrottleIdle /\ IngestIdle /\ AgentsIdle /\ PoolIdle /\ WatchIdle /\ WipeIdle /\ ShortsFetchIdle /\ FinPassIdle /\ ProcessedIdle /\ AddInit /\ ClearIdle /\ MergeIdle /\ RetryIdle /\ DisplayIdle /\ FeedbackIdle /\ SoundIdle /\ SanitizeIdle /\ WipeFailIdle /\ BatchIdle

NextAdd == AddNext

SpecAdd == InitAdd /\ [][NextAdd]_vars

InitClear == LockIdle /\ ThrottleIdle /\ IngestIdle /\ AgentsIdle /\ PoolIdle /\ WatchIdle /\ WipeIdle /\ ShortsFetchIdle /\ FinPassIdle /\ ProcessedIdle /\ AddIdle /\ ClearInit /\ MergeIdle /\ RetryIdle /\ DisplayIdle /\ FeedbackIdle /\ SoundIdle /\ SanitizeIdle /\ WipeFailIdle /\ BatchIdle

NextClear == ClearNext

SpecClear == InitClear /\ [][NextClear]_vars

InitMerge == LockIdle /\ ThrottleIdle /\ IngestIdle /\ AgentsIdle /\ PoolIdle /\ WatchIdle /\ WipeIdle /\ ShortsFetchIdle /\ FinPassIdle /\ ProcessedIdle /\ AddIdle /\ ClearIdle /\ MergeInit /\ RetryIdle /\ DisplayIdle /\ FeedbackIdle /\ SoundIdle /\ SanitizeIdle /\ WipeFailIdle /\ BatchIdle

NextMerge == MergeNext

SpecMerge == InitMerge /\ [][NextMerge]_vars

InitRetry == LockIdle /\ ThrottleIdle /\ IngestIdle /\ AgentsIdle /\ PoolIdle /\ WatchIdle /\ WipeIdle /\ ShortsFetchIdle /\ FinPassIdle /\ ProcessedIdle /\ AddIdle /\ ClearIdle /\ MergeIdle /\ RetryInit /\ DisplayIdle /\ FeedbackIdle /\ SoundIdle /\ SanitizeIdle /\ WipeFailIdle /\ BatchIdle

NextRetry == RetryNext

SpecRetry == InitRetry /\ [][NextRetry]_vars

InitDisplay == LockIdle /\ ThrottleIdle /\ IngestIdle /\ AgentsIdle /\ PoolIdle /\ WatchIdle /\ ShortsFetchIdle /\ FinPassIdle /\ ProcessedIdle /\ AddIdle /\ ClearIdle /\ MergeIdle /\ RetryIdle /\ DisplayInit /\ FeedbackIdle /\ SoundIdle /\ SanitizeIdle /\ WipeFailIdle /\ BatchIdle

NextDisplay == DisplayNext

SpecDisplay == InitDisplay /\ [][NextDisplay]_vars

InitFeedback == LockIdle /\ ThrottleIdle /\ IngestIdle /\ AgentsIdle /\ PoolIdle /\ WatchIdle /\ WipeIdle /\ ShortsFetchIdle /\ FinPassIdle /\ ProcessedIdle /\ AddIdle /\ ClearIdle /\ MergeIdle /\ RetryIdle /\ DisplayIdle /\ FeedbackInit /\ SoundIdle /\ SanitizeIdle /\ WipeFailIdle /\ BatchIdle

NextFeedback == FeedbackNext

\* Timers fire and awaited calls return.
SpecFeedback == InitFeedback /\ [][NextFeedback]_vars /\ WF_vars(NextFeedback)

InitSound == LockIdle /\ ThrottleIdle /\ IngestIdle /\ AgentsIdle /\ PoolIdle /\ WatchIdle /\ WipeIdle /\ ShortsFetchIdle /\ FinPassIdle /\ ProcessedIdle /\ AddIdle /\ ClearIdle /\ MergeIdle /\ RetryIdle /\ DisplayIdle /\ FeedbackIdle /\ SoundInit /\ SanitizeIdle /\ WipeFailIdle /\ BatchIdle

NextSound == SoundNext

SpecSound == InitSound /\ [][NextSound]_vars

InitSanitize == LockIdle /\ ThrottleIdle /\ IngestIdle /\ AgentsIdle /\ PoolIdle /\ WatchIdle /\ WipeIdle /\ ShortsFetchIdle /\ FinPassIdle /\ ProcessedIdle /\ AddIdle /\ ClearIdle /\ MergeIdle /\ RetryIdle /\ DisplayIdle /\ FeedbackIdle /\ SoundIdle /\ SanitizeInit /\ WipeFailIdle /\ BatchIdle

NextSanitize == SanitizeNext

SpecSanitize == InitSanitize /\ [][NextSanitize]_vars

InitWipeFail == LockIdle /\ ThrottleIdle /\ IngestIdle /\ AgentsIdle /\ PoolIdle /\ WatchIdle /\ WipeFailInit /\ ShortsFetchIdle /\ FinPassIdle /\ ProcessedIdle /\ AddIdle /\ ClearIdle /\ MergeIdle /\ RetryIdle /\ DisplayIdle /\ FeedbackIdle /\ SoundIdle /\ SanitizeIdle /\ BatchIdle

NextWipeFail == WipeFailNext

SpecWipeFail == InitWipeFail /\ [][NextWipeFail]_vars

InitBatch == LockIdle /\ ThrottleIdle /\ IngestIdle /\ AgentsIdle /\ PoolIdle /\ WatchIdle /\ WipeIdle /\ ShortsFetchIdle /\ FinPassIdle /\ ProcessedIdle /\ AddIdle /\ ClearIdle /\ MergeIdle /\ RetryIdle /\ DisplayIdle /\ FeedbackIdle /\ SoundIdle /\ SanitizeIdle /\ WipeFailIdle /\ BatchInit

NextBatch == BatchNext

SpecBatch == InitBatch /\ [][NextBatch]_vars

(***************************************************************************)
(* Claims about fileOps.js (specification Spec)                            *)
(***************************************************************************)
\* The calls that have acquired the path's lock and not yet released it.
Holders == {o \in Ops : opPc[o] \in {"reading", "writing"}}

\* C1: within one process, as long as no lock has been force-released as stale,
\* at most one safeReadFile/safeWriteFile call holds the path's lock at a time,
\* and while a call holds it the lock entry is present.
C1_MutualExclusion ==
    ~staleTakeover =>
        /\ Cardinality(Holders) <= 1
        /\ (Holders # {} => LockHas(Path))

\* C1 witness: one call holds the lock while a second call waits for it.
C1_Witness ==
    /\ ~staleTakeover
    /\ \E o1, o2 \in Ops : opPc[o1] = "writing" /\ opPc[o2] = "waiting"

\* Both writers have completed and their partial documents have disjoint keys.
BothWritten ==
    /\ opPc[1] = "done"
    /\ opPc[2] = "done"
    /\ DOMAIN opNewData[1] \cap DOMAIN opNewData[2] = {}

\* The file holds P1 under P1's keys, P2 under P2's keys and the start
\* document's values under every other key of the start document.
NoLostUpdate ==
    LET d == disk[Path]
        P1 == opNewData[1]
        P2 == opNewData[2] IN
    /\ \A k \in DOMAIN P1 : k \in DOMAIN d /\ d[k] = P1[k]
    /\ \A k \in DOMAIN P2 : k \in DOMAIN d /\ d[k] = P2[k]
    /\ \A k \in DOMAIN initDoc \ (DOMAIN P1 \cup DOMAIN P2) :
          k \in DOMAIN d /\ d[k] = initDoc[k]

\* C2 as stated: two completed safeWriteFile calls with disjoint keys never
\* lose an update, whatever the interleaving.
C2_Original == BothWritten => NoLostUpdate

\* C2 amended: two completed safeWriteFile calls with disjoint keys lose no
\* update provided no lock was force-released as stale meanwhile.
C2_NoLostUpdate == (BothWritten /\ ~staleTakeover) => NoLostUpdate

\* C2 witness: both writes completed, one of them after waiting for the other.
C2_Witness ==
    /\ BothWritten
    /\ ~staleTakeover
    /\ opWaited[1] \/ opWaited[2]
    /\ DOMAIN initDoc = {"A", "B", "C"}

\* d has exactly the keys of cur and P, P's values under P's keys and cur's
\* values under the others.
IsShallowMergeOf(d, cur, P) ==
    /\ DOMAIN d = DOMAIN cur \cup DOMAIN P
    /\ \A k \in DOMAIN P : d[k] = P[k]
    /\ \A k \in DOMAIN cur \ DOMAIN P : d[k] = cur[k]

\* C4: the document a safeWriteFile call reads after acquiring the lock is the
\* one on disk, and its completed write leaves on disk exactly the shallow merge
\* of that document with newData: newData's keys have newData's values, every
\* other key keeps its value, no key is removed.
C4_WriteIsShallowMerge ==
    [][\A o \in Writers :
          /\ (opPc[o] = "reading" /\ opPc'[o] = "writing")
                => opCurrent'[o] = disk[Path]
          /\ (opPc[o] = "writing" /\ opPc'[o] = "done")
                => IsShallowMergeOf(disk'[Path], opCurrent[o], opNewData[o])]_vars

\* C4 witness: a write of key A has completed on a document that already had
\* key A (overwritten) and other keys (kept).
C4_Witness ==
    \E o \in Writers :
        /\ opPc[o] = "done"
        /\ DOMAIN opNewData[o] = {"A"}
        /\ DOMAIN initDoc = {"A", "B", "C"}
        /\ disk[Path]["A"] = o
        /\ disk[Path]["B"] = 0

\* C10: a caller waiting in acquireLock that finds the lock entry aged
\* maxLockDuration or more leaves the loop holding the lock (entry re-stamped
\* with the current time); it does not fail with the timeout error.
C10_StaleLockTakenOver ==
    [][\A o \in Ops :
          (/\ opPc[o] = "waiting"
           /\ LockHas(Path)
           /\ now - lockSet[Path] >= maxLockDuration
           /\ opPc'[o] # "waiting")
          => (/\ opPc'[o] = "reading"
              /\ Path \in DOMAIN lockSet'
              /\ lockSet'[Path] = now
              /\ staleTakeover')]_vars

\* C10 witness: a caller that waited for lockTimeout or more has just taken
\* over a stale lock whose previous holder is still in its critical section.
C10_Witness ==
    \E o1, o2 \in Ops :
        /\ o1 # o2
        /\ staleTakeover
        /\ opWaited[o2]
        /\ opPc[o2] = "reading"
        /\ now - opStart[o2] >= lockTimeout
        /\ LockHas(Path) /\ lockSet[Path] = now
        /\ opPc[o1] \in {"reading", "writing"}
        /\ ~opWaited[o1]

\* C12: a safeReadFile call that holds the lock and whose file is missing or
\* is not JSON returns the empty document without raising, leaves the file as
\* it is, and the path has no lock entry when it returns.
C12_ReadErrorGivesEmpty ==
    [][\A o \in Readers :
          (opPc[o] = "reading" /\ opPc'[o] # "reading" /\ ~FileOk(Path))
          => (/\ opPc'[o] = "done"
              /\ opCurrent'[o] = EmptyDoc
              /\ disk' = disk
              /\ fileState' = fileState
              /\ ~(Path \in DOMAIN lockSet'))]_vars

\* C12 witness: a safeReadFile call that had to wait for the lock has
\* returned the empty document from a file that is not JSON.
C12_Witness ==
    \E o \in Readers :
        /\ opPc[o] = "done"
        /\ opWaited[o]
        /\ fileState[Path] = "invalid"
        /\ opCurrent[o] = EmptyDoc
        /\ ~LockHas(Path)

\* C36 as stated: the releaseLock at the end of a call frees the path's lock
\* only if that call is the current holder: when a call whose lock was
\* force-released finishes while the call that took over still holds the
\* lock, the entry set by the call that took over stays.
C36_Original ==
    [][\A o \in Ops :
          (/\ opPc[o] \in {"reading", "writing"}
           /\ opPc'[o] \in {"done", "threw"}
           /\ LockHas(Path)
           /\ lockOwner \notin {0, o}
           /\ opPc[lockOwner] \in {"reading", "writing"})
          => (Path \in DOMAIN lockSet' /\ lockOwner' = lockOwner)]_vars

\* C37: a safeWriteFile call that holds the lock and whose file is missing or
\* is not JSON raises, leaves the file as it is (it is neither created nor
\* repaired), and the path has no lock entry when the error reaches the caller.
C37_WriteErrorRaises ==
    [][\A o \in Writers :
          (opPc[o] = "reading" /\ opPc'[o] # "reading" /\ ~FileOk(Path))
          => (/\ opPc'[o] = "threw"
              /\ disk' = disk
              /\ fileState' = fileState
              /\ ~(Path \in DOMAIN lockSet'))]_vars

\* C37 witness: a safeWriteFile call that had to wait for the lock has raised
\* on a missing file; the file is still missing and the lock entry is gone.
C37_Witness ==
    \E o \in Writers :
        /\ opPc[o] = "threw"
        /\ opKind[o] = "write"
        /\ opWaited[o]
        /\ fileState[Path] = "missing"
        /\ disk[Path] = EmptyDoc
        /\ ~LockHas(Path)

(***************************************************************************)
(* Claims about the throttles (specification SpecThrottle)                 *)
(***************************************************************************)
\* A step in which some fetcher handles response r.
HandlesResponse(r) ==
    \/ FetchTickerNews(r)
    \/ FetchNewsForTickers(r)
    \/ GetNewsForTicker(r)
    \/ FetchFinancials(r)

\* C7 as stated: in each throttled fetcher a rate-limit (429) response never
\* decreases the delay nor takes it above maxDelay, and a successful response
\* never increases the delay nor takes it below minDelay.
C7_Original ==
    [][/\ HandlesResponse("429") =>
            (thDelay' >= thDelay /\ thDelay' <= MaxDelayOf(thFetcher))
       /\ HandlesResponse("ok") =>
            (thDelay' <= thDelay /\ thDelay' >= thMinDelay')]_vars

\* C8 as stated: in every reachable state of each throttled fetcher, the
\* initial state included, minDelay <= delay <= maxDelay.
C8_Original ==
    thFetcher \in Fetchers =>
        (thMinDelay <= thDelay /\ thDelay <= MaxDelayOf(thFetcher))

\* C9: in getNewsForTicker (linear recovery) a 429 response sets delay to
\* min(maxDelay, 2*delay) and a successful response to max(minDelay, delay-100);
\* from the initial delay 500 one 429 gives 1000 and three successes then 700.
C9_LinearRecovery ==
    /\ [](thFetcher = "getNewsForTicker" =>
            /\ (thTrace = <<>> /\ thCount = 0) => (thDelay = 500 /\ thMinDelay = 100)
            /\ thTrace = <<"429">> => thDelay = 1000
            /\ thTrace = <<"429", "ok", "ok", "ok">> => thDelay = 700)
    /\ [][/\ GetNewsForTicker("429") => thDelay' = Min(GNT_maxDelay, 2 * thDelay)
          /\ GetNewsForTicker("ok") => thDelay' = Max(GNT_minDelay, thDelay - 100)]_vars

\* C9 witness: the scenario has run: 429, ok, ok, ok, and delay is 700.
C9_Witness ==
    /\ thFetcher = "getNewsForTicker"
    /\ thTrace = <<"429", "ok", "ok", "ok">>
    /\ thDelay = 700

\* C31: in the batched fetcher a response lowers throttleDelay only if it is
\* a successful one that completes a run of SUCCESS_THRESHOLD successful
\* responses with no failed response between them.
C31_Original ==
    [][(thFetcher = "fetchNewsForTickers" /\ thDelay' < thDelay)
          => (FetchNewsForTickers("ok") /\ thRun' >= FNT_SUCCESS_THRESHOLD)]_vars

\* The successful responses that take a delay d down to the initial minimum
\* in steps of RECOVERY_STEP, one step per SUCCESS_THRESHOLD responses, and
\* one round more.
SufficientRun(d) ==
    FNT_SUCCESS_THRESHOLD *
        (1 + (d - FNT_InitialMinDelay + FNT_RECOVERY_STEP - 1) \div FNT_RECOVERY_STEP)

\* C32: in the batched fetcher, after a sufficiently long run of successful
\* responses since the last failed response, throttleDelay is back at the
\* configured initial minimum.
C32_Original ==
    (thFetcher = "fetchNewsForTickers" /\ thRun >= SufficientRun(thRunFrom))
        => thDelay = FNT_InitialMinDelay

\* C33: in every throttled fetcher a failed response that is not a 429
\* (network error, other status) leaves the delay and its lower bound as they
\* were.
C33_FailureKeepsDelay ==
    [][HandlesResponse("error") => (thDelay' = thDelay /\ thMinDelay' = thMinDelay)]_vars

\* C33 witness: a fetcher has handled a 429 and then a failed response, and
\* its delay is the one the 429 left.
C33_Witness ==
    /\ thFetcher \in Fetchers
    /\ thTrace = <<"429", "error">>
    /\ thDelay = Min(MaxDelayOf(thFetcher),
                     IF thFetcher = "fetchFinancials"
                     THEN (InitialDelayOf(thFetcher) * FIN_IncreaseNum) \div FIN_IncreaseDen
                     ELSE InitialDelayOf(thFetcher) * 2)
    /\ thDelay > InitialDelayOf(thFetcher)

(***************************************************************************)
(* Claims about news ingestion (specification SpecIngest)                  *)
(***************************************************************************)
\* No two items of the ticker's news sequence have the same id.
UniqueIds ==
    \A i, j \in 1..Len(ingNews) : i # j => ingNews[i].id # ingNews[j].id

\* C6 as stated: whatever responses a news agent ingests, the ticker's news
\* sequence holds at most one item per id.
C6_Original == ingAlg \in IngestAlgs => UniqueIds

(***************************************************************************)
(* Claims about the agents sharing tickers.json (specification SpecAgents) *)
(***************************************************************************)
\* C3: when the shorts agent and the news agent (the one writing with
\* safeWriteFile) have both finished a pass in which each wrote the same
\* ticker, no operator command having run, the ticker's record in tickers.json
\* holds the shorts written by the one and the news written by the other.
C3_Original ==
    \A t \in Tickers :
        (/\ nwWriter = "safeWriteFile"
         /\ cmdCount = 0
         /\ shPc = "idle"
         /\ nwPc = "idle"
         /\ t \in shortsWritten
         /\ t \in newsWritten)
        => /\ t \in DOMAIN tickersFile
           /\ tickersFile[t].shorts # NoShorts
           /\ tickersFile[t].news # <<>>

\* C5: no step of the shorts agent, the news agent or an operator command
\* deletes a top-level ticker key of tickers.json.
C5_Original ==
    [][\A t \in DOMAIN tickersFile : t \in DOMAIN tickersFile']_vars

(***************************************************************************)
(* Claims about the callers of fileOps.js (specification SpecPool)         *)
(***************************************************************************)
\* C11: after a safeReadFile call of the agent has failed with the lock
\* timeout, the agent is still running: its process has not exited and its
\* processing loop has not ended.
C11_Original ==
    (\E o \in Ops : opPc[o] = "failed") => (~exited /\ poolPc # "ended")

(***************************************************************************)
(* Claims about the change-driven agents (specification SpecWatch)         *)
(***************************************************************************)
\* C13: once the debounce delay has passed since the last of N >= 1 change
\* notifications that all came with no pass running and each sooner after
\* the previous one than the debounce delay, the debounce timer has started
\* exactly one pass, and it started it one delay after the last notification.
C13_Original ==
    (/\ wNotes >= 1
     /\ wClean
     /\ wnow > wLastNote + wLastDelay)
    => (/\ wWatcherStarts = 1
        /\ wStartAt = wLastNote + wLastDelay)

\* C14: at most one processing pass is in progress at any time.
C14_Original == Len(wPasses) <= 1

(***************************************************************************)
(* Claims about the daily reset check (specification SpecWipe)             *)
(***************************************************************************)
\* The local calendar day of an instant.
LocalDay(t) == (t + tzOffset) \div HoursPerDay

\* A reset check runs.
ResetCheck == CheckAndResetJsonFiles \/ CheckAndWipeIfNeeded \/ CheckAndWipeIfNeededSafe

\* C15: a reset check that finds the stored last-wipe date on the current
\* local day writes nothing; one that finds it one or more days earlier
\* writes once and stores today's local midnight, after which the stored date
\* reads back as the current local day (so a repeated check writes nothing).
C15_ResetIdempotentPerDay ==
    [][(ResetCheck /\ lastWipeFile.present) =>
          LET storedDay == LocalDay(ParseDate(lastWipeFile))
              today == LocalDay(wipeNow) IN
          /\ storedDay = today =>
                /\ stores' = stores
                /\ lastWipeFile' = lastWipeFile
                /\ wipeCount' = wipeCount
          /\ storedDay < today =>
                /\ wipeCount' = wipeCount + 1
                /\ lastWipeFile'.present
                /\ ParseDate(lastWipeFile') = today * HoursPerDay - tzOffset
                /\ LocalDay(ParseDate(lastWipeFile')) = today]_vars

\* C15 witness: a check has wiped after the stored date was two days old, in
\* a time zone whose local midnight falls on the previous UTC day, and the
\* clock has moved on within the same local day.
C15_Witness ==
    /\ wipeVariant = "wipeUtil.js"
    /\ tzOffset > 0
    /\ wipeCount = 1
    /\ lastWipeFile.present
    /\ lastWipeFile.day < LocalDay(wipeNow)
    /\ LocalDay(ParseDate(lastWipeFile)) = LocalDay(wipeNow)
    /\ LocalDay(StartHour) < LocalDay(wipeNow)
    /\ \A p \in StoreNames : stores[p] = EmptyDoc

\* C16: a reset check (wipeUtil.js or short_scraper.js) that finds the stored
\* last-wipe midnight before today's local midnight leaves every managed
\* store holding the empty document and the last-wipe file holding today's
\* local midnight.
C16_Original ==
    [][(/\ CheckAndResetJsonFiles \/ CheckAndWipeIfNeededSafe
        /\ lastWipeFile.present
        /\ LocalDay(ParseDate(lastWipeFile)) < LocalDay(wipeNow))
       => (/\ \A p \in StoreNames : stores'[p] = EmptyDoc
           /\ lastWipeFile'.present
           /\ ParseDate(lastWipeFile') = LocalDay(wipeNow) * HoursPerDay - tzOffset)]_vars

(***************************************************************************)
(* Claims about the shorts fetcher (specification SpecShortsFetch)         *)
(***************************************************************************)
\* Each fetch attempt after the first was preceded by a longer wait than the
\* attempt before it.
WaitsIncrease == \A i \in 1..(Len(sfWaits) - 1) : sfWaits[i] < sfWaits[i + 1]

\* The call has returned no data.
GaveUp == sfPc = "returned" /\ sfResult = "null"

\* C17 as stated: when every response is a 429, the call makes at most 3
\* fetch attempts, each after a longer wait, and then returns no data.
C17_Original ==
    sfAll429 =>
        /\ Len(sfWaits) <= 3
        /\ WaitsIncrease
        /\ (sfPc = "returned" => sfResult = "null")

\* C17 amended: when every response is a 429, the call makes at most 4 fetch
\* attempts (the first and 3 retries), each after a longer wait than the one
\* before, and after the 4th 429 it has returned no data.
C17_FourAttemptsThenGiveUp ==
    sfAll429 =>
        /\ Len(sfWaits) <= SHF_RetryLimit + 1
        /\ WaitsIncrease
        /\ (sfPc = "returned" => GaveUp /\ Len(sfWaits) = SHF_RetryLimit + 1)
        /\ (Len(sfWaits) = SHF_RetryLimit + 1 /\ sfPc # "request" => GaveUp)

\* C17 witness: four attempts, all answered with 429, the last three after
\* the shortest random delay following the longest; the call has given up.
C17_Witness ==
    /\ sfAll429
    /\ GaveUp
    /\ Len(sfWaits) = 4
    /\ sfWaits[1] = SHF_DelayBase + SHF_DelaySpan - 1
    /\ sfWaits[2] = SHF_RetryStep + SHF_DelayBase

(***************************************************************************)
(* Claims about financials_scraper.js: processTickers                      *)
(***************************************************************************)
\* C18: whatever the fetch outcomes, one call of processTickers terminates: a
\* ticker whose fetch keeps failing is dropped after a bounded number of
\* attempts and the pass ends.
C18_Original == <>(finPc = "done")

(***************************************************************************)
(* Claims about the processed-ticker files                                 *)
(***************************************************************************)
\* C19: between two daily wipes the persisted processed-ticker set of the
\* filings and shorts agents only grows, also across a restart: a ticker once
\* recorded stays recorded, and it is not fetched again.
C19_Original == ptRecorded \subseteq ptFile /\ ~ptRefetched

(***************************************************************************)
(* Claims about the add command                                            *)
(***************************************************************************)
\* C20: the add command for T on a tickers.json without T adds exactly the
\* record {ticker: T, news: [], isActive: true} under key T and changes no
\* other key; on a document with T it only sets T.isActive to true and
\* leaves T's news and other fields as they were.
C20_AddExact ==
    adStateBefore = "json" /\ adCmd = "add" =>
        /\ adPc # "failed"
        /\ adPc = "done" =>
              /\ \A k \in DOMAIN adBefore \ {adTicker} :
                     k \in DOMAIN adFile /\ adFile[k] = adBefore[k]
              /\ DOMAIN adFile = DOMAIN adBefore \cup {adTicker}
              /\ adTicker \notin DOMAIN adBefore =>
                     adFile[adTicker] = [ticker |-> adTicker, news |-> <<>>, isActive |-> TRUE]
              /\ adTicker \in DOMAIN adBefore =>
                     /\ DOMAIN adFile[adTicker] = DOMAIN adBefore[adTicker]
                     /\ adFile[adTicker].isActive = TRUE
                     /\ \A f \in DOMAIN adBefore[adTicker] \ {"isActive"} :
                            adFile[adTicker][f] = adBefore[adTicker][f]

\* C20 witness: an add of a new ticker has been written to a document that
\* held another ticker with news, by the variant that merges on write.
C20_Witness ==
    /\ adPc = "done"
    /\ adCmd = "add"
    /\ adVariant = "safe"
    /\ adStateBefore = "json"
    /\ adTicker \notin DOMAIN adBefore
    /\ \E k \in DOMAIN adBefore \cap Tickers : adBefore[k].news # <<>> /\ ~adBefore[k].isActive

\* The tickers a command is aimed at: the one named, or all of them.
Targeted == IF adCmd = "clear" THEN DOMAIN adBefore ELSE {adTicker} \cap DOMAIN adBefore

\* C21: remove for an existing ticker, and clear-all, leave tickers.json with
\* isActive = false for the targeted tickers, their news and other fields
\* unchanged, and no top-level key added or removed.
C21_Original ==
    (adPc = "done" /\ adStateBefore = "json" /\ adCmd \in {"remove", "clear"}) =>
        /\ DOMAIN adFile = DOMAIN adBefore
        /\ \A k \in Targeted :
               /\ DOMAIN adFile[k] = DOMAIN adBefore[k]
               /\ adFile[k].isActive = FALSE
               /\ \A f \in DOMAIN adBefore[k] \ {"isActive"} : adFile[k][f] = adBefore[k][f]
        /\ \A k \in DOMAIN adBefore \ Targeted : adFile[k] = adBefore[k]

(***************************************************************************)
(* Claims about the isActive flag under the agents' passes                 *)
(***************************************************************************)
\* The step is the write of an add command for ticker t.
AddWrites(t) == cmdPc = "write" /\ cmdName = "add" /\ cmdTicker = t /\ cmdPc' = "idle"

\* The step brings new information for ticker t into tickers.json.
NewInformation(t) ==
    \/ tickersFile'[t].news # tickersFile[t].news
    \/ tickersFile'[t].shorts # tickersFile[t].shorts

\* C22: a deactivated ticker stays isActive = false on disk until new
\* information arrives for it or it is added again, for every interleaving
\* with the agents' passes: a write for another field or ticker does not
\* reactivate it.
C22_Original ==
    [][\A t \in DOMAIN tickersFile \cap DOMAIN tickersFile' :
          (~tickersFile[t].isActive /\ tickersFile'[t].isActive)
              => (AddWrites(t) \/ NewInformation(t))]_vars

(***************************************************************************)
(* Claims about the display agent's clear schedule                         *)
(***************************************************************************)
\* C23: while the display agent runs, once local time has reached 15:45 every
\* ticker in tickers.json is inactive with its news and other fields
\* unchanged, and the agent is still running.
C23_Original ==
    (getHours(clkNow) = CLEAR_HOURS /\ getMinutes(clkNow) = CLEAR_MINUTES /\ clkNow % 60 >= 2) =>
        /\ clkRunning
        /\ clkFile = [k \in DOMAIN clkBefore |-> Deactivated(clkBefore[k])]

(***************************************************************************)
(* Claims about the watchers' return to Idle                               *)
(***************************************************************************)
\* C24: after every pass, also one that raised an error, and after any burst
\* of change notifications, the agent is Idle again: with no pass running and
\* no timer pending the guard flag is clear, and no error has escaped a pass.
C24_Original ==
    /\ ~wEscaped
    /\ (wPasses = <<>> /\ fileChangeTimeout = NoTimer) => ~processing

\* C25: a change whose notification was dropped while a pass was in progress
\* is picked up by a later pass without any further notification: when no
\* pass is running, a timer that will start one is set.
C25_Original == (wMissed /\ wPasses = <<>>) => DueTimes # {}

(***************************************************************************)
(* Claims about the display process's merge handlers                       *)
(***************************************************************************)
\* C26: the shorts merge and the filings merge never lose each other's
\* update, for every interleaving of their awaits: when both handlers are
\* done, tickers.json holds the shorts and the filings of every ticker they
\* had data for.
C26_Original ==
    (\A h \in Handlers : mgPc[h] = "done") =>
        /\ \A t \in mgInput["shorts"] : t \in DOMAIN mgFile /\ mgFile[t].shorts = SomeData
        /\ \A t \in mgInput["filings"] : t \in DOMAIN mgFile /\ mgFile[t].filings = SomeData

(***************************************************************************)
(* Claims about the retry pool                                             *)
(***************************************************************************)
\* C27: a ticker whose fetch failed is in the retry pool, and once main has
\* returned it has been attempted again by a retry pass of the same run.
C27_Original ==
    \A t \in rtFailed :
        /\ t \in Range(rtRetryPool)
        /\ (rtPc = "idle" => t \in rtRetried)


\* C28: after a daily wipe, a ticker handled before the wipe that is in
\* tickers.json again when main runs has been fetched again once main has
\* returned, whether or not the agent was restarted.
C28_Original ==
    ptPc = "idle" => \A t \in ptBefore \cap ptMainKeys : t \in ptFetchedSince

(***************************************************************************)
(* Claims about the display agent's run                                    *)
(***************************************************************************)
\* C29: while the display agent runs, the stores have been wiped for every
\* local day that began at least one clock step ago.
C29_Original ==
    dpPc = "running" => ~WipeNeeded(lastWipeFile, setToMidnight(wipeNow - HourStep))

(***************************************************************************)
(* Claims about the filings agent watching the file it writes              *)
(***************************************************************************)
\* No main() is running and no timer is pending.
FbQuiet == (\A s \in FbPasses : fbPc[s] = "idle") /\ ~fbTimer

\* C30: with tickers.json changed only by the filings agent itself, the
\* agent eventually stops: from some point on no main() runs and no timer
\* is pending, so nothing is written any more.
C30_FeedbackEnds == <>[]FbQuiet

\* C30: the agent has written tickers.json, its watcher has started a main
\* on that write, and now nothing runs and nothing is pending.
C30_Witness == FbQuiet /\ fbWrote /\ fbSelfPass /\ ~fbProcessing

(***************************************************************************)
(* Claims about the alert sounds                                           *)
(***************************************************************************)
\* C34: two sounds started one after the other are at least the agent's
\* debounce interval apart.
C34_Original ==
    Len(sdStarts) = 2 => sdStarts[2] - sdStarts[1] >= IntervalOf(sdAgent)

(***************************************************************************)
(* Claims about the keys of tickers.json                                   *)
(***************************************************************************)
\* C35: every key the add and load commands and the scanner create has at
\* least 2 characters, all of them uppercase letters.
C35_Original ==
    \A k \in snKeys : Len(k) >= 2 /\ \A i \in 1..Len(k) : k[i] \in UpperLetters

(***************************************************************************)
(* Claims about failing writes of the reset check (specification            *)
(* SpecWipeFail)                                                            *)
(***************************************************************************)
\* The files a variant's reset check manages.
ManagedFiles == IF wipeVariant = "ticker.js" THEN {"tickers.json"} ELSE StoreNames

\* A reset check whose write of a managed file fails.
FailingCheck ==
    \/ \E k \in 1..Len(JsonFilePaths) : CheckAndResetJsonFilesFailing(k)
    \/ \E err \in WriteErrors, retryOk \in BOOLEAN : CheckAndWipeIfNeededFailing(err, retryOk)

\* C38: the last-wipe date is written only by a check that has reset every
\* managed file; a check that ends on a failed write of a managed file leaves
\* the date as it was, and as long as no check has wiped since, the check
\* still finds that a wipe is due.
C38_DateAfterResets ==
    /\ [][(wipeVariant \in {"wipeUtil.js", "ticker.js"} /\ lastWipeFile' # lastWipeFile)
             => \A p \in ManagedFiles : stores'[p] = EmptyDoc]_vars
    /\ [][(FailingCheck /\ wipeCount' = wipeCount) => lastWipeFile' = lastWipeFile]_vars
    /\ [](wfFailedAt = wipeCount => WipeNeeded(lastWipeFile, setToMidnight(wipeNow)))

\* C38 witness: the reset of the second file failed after the first file was
\* reset and left the date as it was; hours later, on the same day, the
\* check has wiped every file and stored the date.
C38_Witness ==
    /\ wipeVariant = "wipeUtil.js"
    /\ wfFailedAt = 0
    /\ wipeCount = 1
    /\ wipeNow > StartHour
    /\ LocalDay(wipeNow) = LocalDay(StartHour)
    /\ lastWipeFile.present
    /\ LocalDay(ParseDate(lastWipeFile)) = LocalDay(wipeNow)
    /\ \A p \in StoreNames : stores[p] = EmptyDoc

(***************************************************************************)
(* Claims about the news agent's pool (specification SpecBatch)             *)
(***************************************************************************)
\* C39 as stated: tickerPool never holds the same ticker twice, whatever the
\* interleaving of the pool loop with the refreshes.
C39_Original ==
    \A i, j \in 1..Len(bpPool) : bpPool[i] = bpPool[j] => i = j

\* C40 as stated: after a change of tickers.json, once every refresh has
\* returned and no batch is in flight, tickerPool holds no ticker that is
\* absent from tickers.json.
C40_Original ==
    (bpChanges > 0 /\ bpHandlers = 0 /\ bpPc # "fetching")
        => Range(bpPool) \subseteq bpFile

====
